---- MODULE Spec2Model ----
(***************************************************************************)
(* Model of the send/poll conversation protocol of                         *)
(* app/api/send-message/route.ts: the ConversationStore, the send and poll *)
(* request handlers, the background completion handler and the endpoint    *)
(* client.  Wall-clock time is the variable now (milliseconds).            *)
(* Strings that the code inspects character by character are sequences of  *)
(* one-character strings.                                                  *)
(***************************************************************************)
EXTENDS Integers, Sequences, FiniteSets, TLC

\* ------------------------------------------------------------------------
\* Bounds of the exploration
\* ------------------------------------------------------------------------
MaxTicks == 2
MaxRequests == 2
MaxImmediate == 1
MaxLen == 3

\* ------------------------------------------------------------------------
\* TIMING (route.ts 118-126)
\* ------------------------------------------------------------------------
EMPTY_MESSAGE_INTERVAL == 8000
MAX_TOTAL_TIME == 300000
WEBHOOK_TIMEOUT == 90000
NORMAL_MESSAGE_TIMEOUT == 25000
CLEANUP_INTERVAL == 60000
MAX_CONVERSATION_AGE == 900000
POLLING_WAIT_TIME == 10000

\* Steps by which the clock advances between two events.
Deltas == {10000, 300000, 900000}

\* Correlation keys (normalized recipients) the store can hold, and the key
\* the requests of the single-recipient specification use.
Keys == {"whatsapp:+1", "whatsapp:+2"}
OneKey == {"whatsapp:+1"}

\* ------------------------------------------------------------------------
\* Character strings
\* ------------------------------------------------------------------------
UpperCase == <<"A","B","C","D","E","F","G","H","I","J","K","L","M",
               "N","O","P","Q","R","S","T","U","V","W","X","Y","Z">>
LowerCase == <<"a","b","c","d","e","f","g","h","i","j","k","l","m",
               "n","o","p","q","r","s","t","u","v","w","x","y","z">>

\* String.prototype.toLowerCase, one character
toLowerChar(c) ==
  IF \E i \in 1..26 : UpperCase[i] = c
  THEN LowerCase[CHOOSE i \in 1..26 : UpperCase[i] = c]
  ELSE c

\* String.prototype.toLowerCase
toLowerCase(s) == [i \in 1..Len(s) |-> toLowerChar(s[i])]

\* String.prototype.startsWith
startsWith(s, p) == Len(s) >= Len(p) /\ SubSeq(s, 1, Len(p)) = p

\* String.prototype.includes
includes(s, p) ==
  \E i \in 1..(Len(s) + 1) :
     i + Len(p) - 1 <= Len(s) /\ SubSeq(s, i, i + Len(p) - 1) = p

\* String.prototype.trim
Whitespace == {" ", "\t", "\n"}

RECURSIVE trimStart(_)
trimStart(s) ==
  IF s # << >> /\ Head(s) \in Whitespace THEN trimStart(Tail(s)) ELSE s

RECURSIVE trimEnd(_)
trimEnd(s) ==
  IF s # << >> /\ s[Len(s)] \in Whitespace
  THEN trimEnd(SubSeq(s, 1, Len(s) - 1))
  ELSE s

trim(s) == trimEnd(trimStart(s))

\* String.prototype.slice(n)
slice(s, n) == SubSeq(s, n + 1, Len(s))

Digits == {"0", "1", "2", "3", "4", "5", "6", "7", "8", "9"}

\* n.replace(/[^+\d]/g, "")
keepPlusAndDigits(s) == SelectSeq(s, LAMBDA c : c = "+" \/ c \in Digits)

WhatsAppPrefix == <<"w","h","a","t","s","a","p","p",":">>

\* normalizeWhatsApp, always prepending "+": a variant of the code under which C10 fails
normalizeWhatsApp_AlwaysPlus(value) ==
  IF value = << >>
  THEN << >>
  ELSE LET n1 == trim(value)
           n2 == IF startsWith(toLowerCase(n1), WhatsAppPrefix)
                 THEN slice(n1, 9) ELSE n1
           n3 == keepPlusAndDigits(n2)
       IN WhatsAppPrefix \o (<<"+">> \o n3)

\* normalizeWhatsApp that never prepends "+": a variant of the code under
\* which C11 fails
normalizeWhatsApp_NoPlus(value) ==
  IF value = << >>
  THEN << >>
  ELSE LET n1 == trim(value)
           n2 == IF startsWith(toLowerCase(n1), WhatsAppPrefix)
                 THEN slice(n1, 9) ELSE n1
           n3 == keepPlusAndDigits(n2)
       IN WhatsAppPrefix \o n3

\* normalizeWhatsApp (route.ts 143-150) on a string; a missing value and ""
\* both take the !raw return
normalizeWhatsApp(value) ==
  IF value = << >>
  THEN << >>
  ELSE LET n1 == trim(value)
           n2 == IF startsWith(toLowerCase(n1), WhatsAppPrefix)
                 THEN slice(n1, 9) ELSE n1
           n3 == keepPlusAndDigits(n2)
           n4 == IF ~startsWith(n3, <<"+">>) THEN <<"+">> \o n3 ELSE n3
       IN WhatsAppPrefix \o n4

softSkillsQuestions ==
  << <<"s","o","f","t"," ","s","k","i","l","l","s">>,
     <<"p","r","i","m","a","r","y"," ","s","k","i","l","l","s">>,
     <<"w","h","a","t"," ","s","o","f","t"," ","s","k","i","l","l","s">>,
     <<"t","e","a","m","w","o","r","k">>,
     <<"p","r","o","b","l","e","m","-","s","o","l","v","i","n","g">>,
     <<"c","o","m","m","u","n","i","c","a","t","i","o","n">>,
     <<"a","d","a","p","t","a","b","i","l","i","t","y">>,
     <<"t","e","c","h","n","i","c","a","l"," ","l","e","a","d","e","r","s","h","i","p">>,
     <<"w","h","a","t"," ","a","r","e"," ","y","o","u","r"," ","s","o","f","t"," ","s","k","i","l","l","s">>,
     <<"t","e","l","l"," ","m","e"," ","a","b","o","u","t"," ","y","o","u","r"," ","s","k","i","l","l","s">>,
     <<"w","h","a","t"," ","s","k","i","l","l","s"," ","d","o"," ","y","o","u"," ","h","a","v","e">>,
     <<"w","h","a","t"," ","a","r","e"," ","y","o","u","r"," ","p","r","i","m","a","r","y"," ","s","k","i","l","l","s">>,
     <<"d","e","s","c","r","i","b","e"," ","y","o","u","r"," ","s","k","i","l","l","s">> >>

technicalSkills ==
  << <<"j","a","v","a">>,
     <<"s","p","r","i","n","g">>,
     <<"f","r","a","m","e","w","o","r","k">>,
     <<"s","q","l">>,
     <<"s","p","r","i","n","g"," ","b","o","o","t">>,
     <<"r","e","s","t"," ","a","p","i">>,
     <<"g","i","t">>,
     <<"d","o","c","k","e","r">>,
     <<"p","o","s","t","g","r","e","s","q","l">>,
     <<"m","a","v","e","n">>,
     <<"o","r","a","c","l","e">>,
     <<"k","u","b","e","r","n","e","t","e","s">>,
     <<"j","a","v","a"," ","e","e">>,
     <<"p","y","t","h","o","n">>,
     <<"j","a","v","a","s","c","r","i","p","t">>,
     <<"r","e","a","c","t">>,
     <<"n","o","d","e">>,
     <<"a","w","s">>,
     <<"a","z","u","r","e">>,
     <<"c","l","o","u","d">>,
     <<"d","a","t","a","b","a","s","e">>,
     <<"a","p","i">>,
     <<"m","i","c","r","o","s","e","r","v","i","c","e","s">>,
     <<"d","e","v","o","p","s">>,
     <<"h","t","m","l">>,
     <<"c","s","s">>,
     <<"t","y","p","e","s","c","r","i","p","t">>,
     <<"a","n","g","u","l","a","r">>,
     <<"v","u","e">>,
     <<"m","o","n","g","o","d","b">>,
     <<"m","y","s","q","l">>,
     <<"r","e","d","i","s">>,
     <<"k","a","f","k","a">>,
     <<"j","e","n","k","i","n","s">>,
     <<"a","n","s","i","b","l","e">>,
     <<"t","e","r","r","a","f","o","r","m">> >>

\* detectMessageType that finds no keyword: a variant of the code under
\* which C15 fails
detectMessageType_Never(userMessage) ==
  [isSoftSkillsQuestion |-> FALSE, isTechnicalSkills |-> FALSE]

\* detectMessageType (route.ts 544-575)
detectMessageType(userMessage) ==
  LET text == toLowerCase(userMessage)
      isQuestion == \E i \in 1..Len(softSkillsQuestions) :
                       includes(text, softSkillsQuestions[i])
      isTechnical == \E i \in 1..Len(technicalSkills) :
                       includes(text, technicalSkills[i])
  IN [isSoftSkillsQuestion |-> isQuestion,
      isTechnicalSkills |-> isTechnical /\ ~isQuestion]

\* Message texts the clients send.
Messages == { <<"T","e","a","m","w","o","r","k">>, <<"h","i">> }

\* ------------------------------------------------------------------------
\* Endpoint client (route.ts 172-318)
\* ------------------------------------------------------------------------
endpoints == << "https://surikado.hellodexter.com:5678/webhook",
                "https://surikado.hellodexter.com/webhook" >>

\* Strings for which message.trim() === "" holds.
WhitespaceStrings == {"", " ", "  "}

\* Bodies a 2xx response can carry: the text, whether JSON.parse accepts it,
\* and the string fields of the parsed object ("" when the field is absent).
ResponseBodies ==
  { [text |-> "{output:hi there}", json |-> TRUE, output |-> "hi there",
       message |-> "", response |-> "", body |-> ""] }

\* What the network does with one fetch.
AttemptOutcomes ==
  { [kind |-> "ok", resp |-> b] : b \in ResponseBodies }
    \cup { [kind |-> "http", resp |-> "HTTP 500"],
           [kind |-> "abort", resp |-> "Timeout"],
           [kind |-> "error", resp |-> "fetch failed"] }

\* a || b taking b first: a variant of the code under which C14 fails
OrElse_Second(a, b) == IF b # "" THEN b ELSE a

\* JavaScript a || b on strings
OrElse(a, b) == IF a # "" THEN a ELSE b

DefaultThanks == "Thank you for your message! I've received your information and will help you find the best opportunities."

\* WebhookClient.attemptWebhookCall (route.ts 210-288)
attemptWebhookCall(outcome) ==
  IF outcome.kind = "ok"
  THEN LET responseText == outcome.resp.text
           parsed == IF outcome.resp.json
                     THEN OrElse(outcome.resp.output,
                            OrElse(outcome.resp.message,
                              OrElse(outcome.resp.response,
                                OrElse(outcome.resp.body, responseText))))
                     ELSE responseText
           message == IF parsed \in WhitespaceStrings
                         \/ parsed = "success" \/ parsed = "Success"
                      THEN DefaultThanks
                      ELSE parsed
       IN [ok |-> TRUE, message |-> message, error |-> ""]
  ELSE IF outcome.kind = "http"
  THEN [ok |-> FALSE, message |-> "Webhook returned status 500",
        error |-> outcome.resp]
  ELSE [ok |-> FALSE, message |-> outcome.resp, error |-> outcome.resp]

\* WebhookClient.sendToWebhook (route.ts 178-208): the endpoints in order,
\* one attempt each, the first ok result wins.
RECURSIVE sendToWebhookFrom(_, _)
sendToWebhookFrom(i, outcomes) ==
  IF i > Len(endpoints)
  THEN [ok |-> FALSE, message |-> "Unable to reach webhook after all attempts",
        error |-> "All webhook endpoints failed"]
  ELSE LET result == attemptWebhookCall(outcomes[i])
       IN IF result.ok THEN result ELSE sendToWebhookFrom(i + 1, outcomes)

sendToWebhook(outcomes) == sendToWebhookFrom(1, outcomes)

\* Every way the network can answer one sendToWebhook call, and the results
\* sendToWebhook can then resolve to.
NetworkRuns == [1..Len(endpoints) -> AttemptOutcomes]
WebhookResults == { sendToWebhook(run) : run \in NetworkRuns }

\* ------------------------------------------------------------------------
\* ConversationStore (route.ts 42-112): three Maps keyed by phone
\* ------------------------------------------------------------------------
VARIABLES
  now,             \* Date.now()
  conversations,   \* store.conversations
  responses,       \* store.responses
  activeRequests,  \* store.activeRequests
  handlers,        \* processWebhookInBackground invocations awaiting sendToWebhook
  sends,           \* handleSendRequest invocations awaiting sendToWebhook
  lastResult,      \* the response of the request handled by the last step
  nextId,          \* history: number of conversation records created so far, plus one
  nextSend,        \* history: number of immediate sends accepted so far, plus one
  ticks,           \* history: number of clock steps taken
  started,         \* history: per record, how often its handler was started
  delivered,       \* history: per handler, how often its FinalResponse was returned
  lastPoll,        \* history: per key, the branch the last poll took since the last send
  raw,             \* the toPhone value given to normalizeWhatsApp
  userPhone1,      \* normalizeWhatsApp(raw), once computed
  userPhone2,      \* normalizeWhatsApp(userPhone1), once computed
  pc,              \* how many times normalizeWhatsApp was applied
  lastData,        \* the body of the request POST handled last
  lastRun,         \* what the endpoints answered to the sendToWebhook call resolved last
  payload,         \* sendToWebhook: the arguments of the call being followed
  url,             \* sendToWebhook: index of the endpoint the loop is at, 0 before the call
  attempts,        \* sendToWebhook: the attemptWebhookCall calls made so far, in order
  clientResult,    \* sendToWebhook: what the call returned, once it has returned
  hasStartedPollingRef, \* page.tsx: hasStartedPollingRef.current
  pollingIntervalRef,   \* page.tsx: pollingIntervalRef.current, 0 for null
  intervals,       \* page.tsx: the timers made by setInterval and not cleared
  ripe,            \* page.tsx: the timers whose period has run out
  isLoading,       \* page.tsx: isLoading
  fetches,         \* page.tsx: the responses the page still awaits, oldest first
  lost,            \* history: number of fetches that failed
  clears           \* history: number of handleClearCache calls

storeVars == << now, conversations, responses, activeRequests, handlers, sends,
                lastResult, nextId, nextSend, ticks, started, delivered, lastPoll >>
clientVars == << payload, url, attempts, clientResult >>
pageVars == << hasStartedPollingRef, pollingIntervalRef, intervals, ripe, isLoading,
              fetches, lost, clears >>
normVars == << raw, userPhone1, userPhone2, pc, lastData, lastRun, clientVars,
              pageVars >>
vars == << storeVars, normVars >>

MapSet(m, k, v) == [x \in (DOMAIN m) \cup {k} |-> IF x = k THEN v ELSE m[x]]
\* MapDelete that clears the whole map: a variant of the code under which
\* C17 fails
MapDelete_All(m, k) == [x \in {} |-> m[x]]

\* Map.delete
MapDelete(m, k) == [x \in (DOMAIN m) \ {k} |-> m[x]]

\* hasActiveRequest (route.ts 50-52)
hasActiveRequest(phone) ==
  IF phone \in DOMAIN activeRequests THEN activeRequests[phone] ELSE FALSE

\* webhookStartTime of a record whose deferred call was not started
NoTime == -1

Ids == 1..MaxRequests

EmptyMap == [x \in {} |-> 0]

\* No request was handled by POST yet
NoData == [toPhone |-> << >>, action |-> "", message |-> << >>,
           isSoftSkillsQuestion |-> FALSE]

NoResult == [op |-> "none", phone |-> "", status |-> "", ok |-> FALSE,
             message |-> "", success |-> FALSE, branch |-> ""]

\* sendToWebhook has not returned
Pending == [ok |-> FALSE, message |-> "", error |-> "pending"]

\* No sendToWebhook call is being followed
NoPayload == [userMessage |-> << >>, timeoutMs |-> 0]

\* The page after its first render (page.tsx 25-36)
PageInit ==
  /\ hasStartedPollingRef = FALSE
  /\ pollingIntervalRef = 0
  /\ intervals = {}
  /\ ripe = {}
  /\ isLoading = FALSE
  /\ fetches = << >>
  /\ lost = 0
  /\ clears = 0

ClientInit ==
  /\ payload = NoPayload
  /\ url = 0
  /\ attempts = << >>
  /\ clientResult = Pending

StoreInit ==
  /\ now = 0
  /\ conversations = EmptyMap
  /\ responses = EmptyMap
  /\ activeRequests = EmptyMap
  /\ handlers = {}
  /\ sends = {}
  /\ lastResult = NoResult
  /\ nextId = 1
  /\ nextSend = 1
  /\ ticks = 0
  /\ started = [i \in Ids |-> 0]
  /\ delivered = [i \in Ids |-> 0]
  /\ lastPoll = [k \in Keys |-> "none"]

Init ==
  /\ StoreInit
  /\ raw = << >>
  /\ userPhone1 = << >>
  /\ userPhone2 = << >>
  /\ pc = 0
  /\ lastData = NoData
  /\ lastRun = << >>
  /\ ClientInit
  /\ PageInit

\* ------------------------------------------------------------------------
\* Poll State Machine
\* ------------------------------------------------------------------------
emptyMessages ==
  << "Analyzing your soft skills...", "Understanding your strengths...",
     "Processing your profile...", "Matching with opportunities...",
     "Almost ready...", "Preparing your response...", "Finalizing details...",
     "Just a moment more...", "Compiling information...",
     "Getting everything ready..." >>

\* getEmptyMessage without the rotation: a variant of the code under which
\* C22 and C23 fail
getEmptyMessage_First(count) == emptyMessages[1]

\* getEmptyMessage (route.ts 152-166)
getEmptyMessage(count) == emptyMessages[(count % Len(emptyMessages)) + 1]

HardTimeoutMessage == "Thank you for your patience! We've processed your information and will continue our conversation shortly."

\* hardTimeout with > for >=: a variant of the code under which C4 and C8 fail
hardTimeout_Strict(conversation) ==
  (now - conversation.startTime) \div 1000 > MAX_TOTAL_TIME \div 1000

\* The hard-timeout test (route.ts 415, 419)
hardTimeout(conversation) ==
  (now - conversation.startTime) \div 1000 >= MAX_TOTAL_TIME \div 1000

\* callDue without the wait: a variant of the code under which C6 fails
callDue_NoWait(conversation) == now - conversation.startTime >= 0

\* The test that the deferred call is due (route.ts 454-455)
callDue(conversation) == now - conversation.startTime >= POLLING_WAIT_TIME

\* markWebhookCalled without the flag: a variant of the code under which C1 fails
markWebhookCalled_NoFlag(conversation) ==
  [conversation EXCEPT !.webhookStartTime = now,
                       !.processingStarted = TRUE]

\* The record a poll stores when it starts the deferred call (route.ts 458-461)
markWebhookCalled(conversation) ==
  [conversation EXCEPT !.webhookCalled = TRUE,
                       !.webhookStartTime = now,
                       !.processingStarted = TRUE]

\* deleteResponse that deletes nothing: a variant of the code under which C7 fails
deleteResponse_Keep(phone) == responses

\* store.deleteResponse (route.ts 86-88)
deleteResponse(phone) == MapDelete(responses, phone)

PollResult(phone, status, message, success, branch) ==
  [op |-> "poll", phone |-> phone, status |-> status, ok |-> FALSE,
   message |-> message, success |-> success, branch |-> branch]

\* What handlePollRequest does to the store and what it answers
\* (route.ts 389-541).  start is the set of background handlers it starts.
PollStep(userPhone) ==
  LET unchanged(result) ==
        [conversations |-> conversations, responses |-> responses,
         activeRequests |-> activeRequests, start |-> {}, result |-> result]
  IN
  IF userPhone \notin DOMAIN conversations
  THEN \* 392-413
       IF userPhone \in DOMAIN responses
       THEN LET finalResponse == responses[userPhone]
            IN [conversations |-> conversations,
                responses |-> deleteResponse(userPhone),
                activeRequests |-> MapSet(activeRequests, userPhone, FALSE),
                start |-> {},
                result |-> PollResult(userPhone, "completed", finalResponse.message,
                                      finalResponse.success, "stored")]
       ELSE [conversations |-> conversations,
             responses |-> responses,
             activeRequests |-> MapSet(activeRequests, userPhone, FALSE),
             start |-> {},
             result |-> PollResult(userPhone, "none",
                                   "No active conversation found", FALSE, "none")]
  ELSE
  LET conversation == conversations[userPhone]
      timeSinceLastEmpty == now - conversation.lastEmptyMessageTime
      bumped == [conversation EXCEPT !.lastEmptyMessageTime = now,
                                     !.emptyMessageCount = @ + 1]
  IN
  IF hardTimeout(conversation)
  THEN \* 418-431
       [conversations |-> MapDelete(conversations, userPhone),
        responses |-> deleteResponse(userPhone),
        activeRequests |-> MapSet(MapDelete(activeRequests, userPhone), userPhone, FALSE),
        start |-> {},
        result |-> PollResult(userPhone, "completed", HardTimeoutMessage, TRUE,
                              "hard_timeout")]
  ELSE IF conversation.completed /\ userPhone \in DOMAIN responses
  THEN \* 433-449
       [conversations |-> MapDelete(conversations, userPhone),
        responses |-> deleteResponse(userPhone),
        activeRequests |-> MapSet(MapDelete(activeRequests, userPhone), userPhone, FALSE),
        start |-> {},
        result |-> PollResult(userPhone, "completed", responses[userPhone].message,
                              responses[userPhone].success, "completed")]
  ELSE IF ~conversation.webhookCalled /\ conversation.isSoftSkillsFollowUp
  THEN \* 451-481
       IF callDue(conversation)
       THEN [conversations |->
               MapSet(conversations, userPhone, markWebhookCalled(conversation)),
             responses |-> responses,
             activeRequests |-> activeRequests,
             start |-> {[phone |-> userPhone,
                         userMessage |-> conversation.userMessage,
                         requestId |-> conversation.requestId,
                         id |-> conversation.id]},
             result |-> PollResult(userPhone, "processing",
                          "Processing your soft skills information and finding matching opportunities...",
                          FALSE, "trigger")]
       ELSE unchanged(PollResult(userPhone, "waiting",
                        "Preparing to process your information...", FALSE, "preparing"))
  ELSE IF conversation.webhookCalled /\ ~conversation.completed
  THEN \* 483-515
       IF timeSinceLastEmpty >= EMPTY_MESSAGE_INTERVAL
       THEN [conversations |-> MapSet(conversations, userPhone, bumped),
             responses |-> responses,
             activeRequests |-> activeRequests,
             start |-> {},
             result |-> PollResult(userPhone, "empty",
                          getEmptyMessage(bumped.emptyMessageCount), FALSE, "proc_empty")]
       ELSE unchanged(PollResult(userPhone, "processing",
                        "Processing your information...", FALSE, "processing"))
  ELSE \* 517-540
       IF timeSinceLastEmpty >= EMPTY_MESSAGE_INTERVAL
       THEN [conversations |-> MapSet(conversations, userPhone, bumped),
             responses |-> responses,
             activeRequests |-> activeRequests,
             start |-> {},
             result |-> PollResult(userPhone, "empty",
                          getEmptyMessage(bumped.emptyMessageCount), FALSE, "empty")]
       ELSE unchanged(PollResult(userPhone, "waiting",
                        getEmptyMessage(conversation.emptyMessageCount), FALSE, "waiting"))

\* handlePollRequest (route.ts 389-541), reached from POST with action "poll"
handlePollRequest(userPhone) ==
  LET step == PollStep(userPhone)
  IN /\ conversations' = step.conversations
     /\ responses' = step.responses
     /\ activeRequests' = step.activeRequests
     /\ handlers' = handlers \cup step.start
     /\ lastResult' = step.result
     /\ started' = [i \in Ids |->
                      IF \E h \in step.start : h.id = i
                      THEN started[i] + 1 ELSE started[i]]
     /\ delivered' = [i \in Ids |->
                      IF step.result.branch \in {"stored", "completed"}
                         /\ responses[userPhone].hid = i
                      THEN delivered[i] + 1 ELSE delivered[i]]
     /\ lastPoll' = [lastPoll EXCEPT ![userPhone] = step.result.branch]
     /\ UNCHANGED << now, sends, nextId, nextSend, ticks >>

\* ------------------------------------------------------------------------
\* Dispatch Policy
\* ------------------------------------------------------------------------
SendResult(phone, ok, status, message, branch) ==
  [op |-> "send", phone |-> phone, status |-> status, ok |-> ok,
   message |-> message, success |-> FALSE, branch |-> branch]

InProgressError == "Please wait for the current request to complete before sending another message."

\* handleSendRequest up to its return or its first await (route.ts 578-652)
handleSendRequest(userPhone, userMessage, isSoftSkillsQuestion) ==
  LET serverDetection == detectMessageType(userMessage)
      shouldUsePolling == isSoftSkillsQuestion /\ serverDetection.isSoftSkillsQuestion
      requestId == << userPhone, now >>
  IN
  IF hasActiveRequest(userPhone)
  THEN \* 592-600
       /\ lastResult' = SendResult(userPhone, FALSE, "processing", InProgressError,
                                   "rejected")
       /\ UNCHANGED << now, conversations, responses, activeRequests, handlers,
                       sends, nextId, nextSend, ticks, started, delivered, lastPoll >>
  ELSE IF shouldUsePolling
  THEN \* 602-641
       LET locked == MapSet(activeRequests, userPhone, TRUE)
           cleanup == userPhone \in DOMAIN conversations
                        /\ conversations[userPhone].completed
           conversations1 == IF cleanup THEN MapDelete(conversations, userPhone)
                             ELSE conversations
           activeRequests1 == IF cleanup THEN MapDelete(locked, userPhone)
                              ELSE locked
           responses1 == IF cleanup THEN MapDelete(responses, userPhone)
                         ELSE responses
       IN /\ nextId <= MaxRequests
          /\ conversations' =
               MapSet(conversations1, userPhone,
                      [startTime |-> now,
                       lastEmptyMessageTime |-> now,
                       completed |-> FALSE,
                       userMessage |-> userMessage,
                       webhookCalled |-> FALSE,
                       emptyMessageCount |-> 0,
                       webhookStartTime |-> NoTime,
                       processingStarted |-> FALSE,
                       isSoftSkillsFollowUp |-> TRUE,
                       requestId |-> requestId,
                       id |-> nextId])
          /\ responses' = responses1
          /\ activeRequests' = activeRequests1
          /\ nextId' = nextId + 1
          /\ lastResult' = SendResult(userPhone, TRUE, "pending",
                                      "Processing your skills information...", "deferred")
          /\ lastPoll' = [lastPoll EXCEPT ![userPhone] = "sent"]
          /\ UNCHANGED << now, handlers, sends, nextSend, ticks, started, delivered >>
  ELSE \* 602-603, 643-652: the request now awaits sendToWebhook
       /\ nextSend <= MaxImmediate
       /\ activeRequests' = MapSet(activeRequests, userPhone, TRUE)
       /\ sends' = sends \cup {[phone |-> userPhone, id |-> nextSend]}
       /\ nextSend' = nextSend + 1
       /\ lastResult' = NoResult
       /\ lastPoll' = [lastPoll EXCEPT ![userPhone] = "sent"]
       /\ UNCHANGED << now, conversations, responses, handlers, nextId, ticks,
                       started, delivered >>

\* handleSendReturn that also drops the stored FinalResponse: a variant of
\* the code under which C35 fails
handleSendReturn_Purge(s, result) ==
     /\ s \in sends
     /\ sends' = sends \ {s}
     /\ activeRequests' = MapSet(activeRequests, s.phone, FALSE)
     /\ responses' = MapDelete(responses, s.phone)
     /\ lastResult' = SendResult(s.phone, result.ok, "", result.message, "immediate")
     /\ UNCHANGED << now, conversations, handlers, nextId, nextSend,
                     ticks, started, delivered, lastPoll >>

\* handleSendRequest after sendToWebhook has resolved (route.ts 654-664)
handleSendReturn(s, result) ==
     /\ s \in sends
     /\ sends' = sends \ {s}
     /\ activeRequests' = MapSet(activeRequests, s.phone, FALSE)
     /\ lastResult' = SendResult(s.phone, result.ok, "", result.message, "immediate")
     /\ UNCHANGED << now, conversations, responses, handlers, nextId, nextSend,
                     ticks, started, delivered, lastPoll >>

\* ------------------------------------------------------------------------
\* Background Completion Handler
\* ------------------------------------------------------------------------
FailureFallback == "Thank you for your response! Our system is processing your information and will get back to you shortly."

\* finalResponseOf storing an empty message: a variant of the code under
\* which C24 fails
finalResponseOf_Blank(result, hid) ==
  [message |-> "", timestamp |-> now, success |-> TRUE, hid |-> hid]

\* The FinalResponse processWebhookInBackground stores (route.ts 344-360)
finalResponseOf(result, hid) ==
  IF result.ok
  THEN [message |-> result.message, timestamp |-> now, success |-> TRUE,
        hid |-> hid]
  ELSE [message |-> FailureFallback, timestamp |-> now, success |-> TRUE,
        hid |-> hid]

\* processWebhookInBackground that stores no FinalResponse when the call
\* failed: a variant of the code under which C36 fails
processWebhookInBackground_SilentFailure(h, result) ==
  LET userPhone == h.phone
  IN /\ h \in handlers
     /\ handlers' = handlers \ {h}
     /\ responses' = IF result.ok
                     THEN MapSet(responses, userPhone, finalResponseOf(result, h.id))
                     ELSE responses
     /\ conversations' =
          IF userPhone \in DOMAIN conversations
          THEN [conversations EXCEPT ![userPhone].completed = TRUE]
          ELSE conversations
     /\ activeRequests' = MapSet(activeRequests, userPhone, FALSE)
     /\ lastResult' = NoResult
     /\ UNCHANGED << now, sends, nextId, nextSend, ticks, started, delivered,
                     lastPoll >>

\* processWebhookInBackground after sendToWebhook has resolved
\* (route.ts 342-382).  sendToWebhook catches every error of an attempt, so
\* the catch block of 362-370 is not entered.
processWebhookInBackground(h, result) ==
  LET userPhone == h.phone
  IN /\ h \in handlers
     /\ handlers' = handlers \ {h}
     /\ responses' = MapSet(responses, userPhone, finalResponseOf(result, h.id))
     /\ conversations' =
          IF userPhone \in DOMAIN conversations
          THEN [conversations EXCEPT ![userPhone].completed = TRUE]
          ELSE conversations
     /\ activeRequests' = MapSet(activeRequests, userPhone, FALSE)
     /\ lastResult' = NoResult
     /\ UNCHANGED << now, sends, nextId, nextSend, ticks, started, delivered,
                     lastPoll >>

\* ------------------------------------------------------------------------
\* Sweep and clock
\* ------------------------------------------------------------------------
\* cleanup without its second loop: a variant of the code under which C28
\* fails
cleanup_RecordsOnly(maxAge) ==
  LET stale == {phone \in DOMAIN conversations :
                   now - conversations[phone].startTime > maxAge}
  IN /\ conversations' = [phone \in (DOMAIN conversations) \ stale |->
                             conversations[phone]]
     /\ activeRequests' = [phone \in (DOMAIN activeRequests) \ stale |->
                             activeRequests[phone]]
     /\ responses' = [phone \in (DOMAIN responses) \ stale |-> responses[phone]]

\* cleanup that leaves the active-request flags alone: a variant of the code
\* under which C34 fails
cleanup_KeepFlags(maxAge) ==
  LET stale == {phone \in DOMAIN conversations :
                   now - conversations[phone].startTime > maxAge}
      responses1 == [phone \in (DOMAIN responses) \ stale |-> responses[phone]]
      old == {phone \in DOMAIN responses1 :
                 now - responses1[phone].timestamp > maxAge}
  IN /\ conversations' = [phone \in (DOMAIN conversations) \ stale |->
                             conversations[phone]]
     /\ activeRequests' = activeRequests
     /\ responses' = [phone \in (DOMAIN responses1) \ old |-> responses1[phone]]

\* ConversationStore.cleanup (route.ts 91-111)
cleanup(maxAge) ==
  LET stale == {phone \in DOMAIN conversations :
                   now - conversations[phone].startTime > maxAge}
      responses1 == [phone \in (DOMAIN responses) \ stale |-> responses[phone]]
      old == {phone \in DOMAIN responses1 :
                 now - responses1[phone].timestamp > maxAge}
  IN /\ conversations' = [phone \in (DOMAIN conversations) \ stale |->
                             conversations[phone]]
     /\ activeRequests' = [phone \in (DOMAIN activeRequests) \ stale |->
                             activeRequests[phone]]
     /\ responses' = [phone \in (DOMAIN responses1) \ old |-> responses1[phone]]

\* The setInterval task (route.ts 135-137)
Cleanup ==
  /\ cleanup(MAX_CONVERSATION_AGE)
  /\ lastResult' = NoResult
  /\ UNCHANGED << now, handlers, sends, nextId, nextSend, ticks, started,
                  delivered, lastPoll >>

\* The timestamps the store holds.
Timestamps ==
  {conversations[phone].startTime : phone \in DOMAIN conversations}
    \cup {responses[phone].timestamp : phone \in DOMAIN responses}

\* Time passes.  The code reads the clock only to compare it with a stored
\* timestamp, so the clock is advanced only while a timestamp is stored.  Past
\* the exploration bound it still moves, in steps of MAX_TOTAL_TIME, while a
\* conversation has not reached its hard deadline.
Tick(d) ==
  /\ Timestamps # {}
  /\ \/ ticks < MaxTicks
     \/ /\ d = MAX_TOTAL_TIME
        /\ \E phone \in DOMAIN conversations :
              now - conversations[phone].startTime < MAX_TOTAL_TIME
  /\ now' = now + d
  /\ ticks' = IF ticks < MaxTicks THEN ticks + 1 ELSE ticks
  /\ lastResult' = NoResult
  /\ UNCHANGED << conversations, responses, activeRequests, handlers, sends,
                  nextId, nextSend, started, delivered, lastPoll >>

Poll ==
  /\ \E userPhone \in OneKey : handlePollRequest(userPhone)
  /\ UNCHANGED normVars

Send ==
  /\ \E userPhone \in OneKey, userMessage \in Messages, soft \in BOOLEAN :
        handleSendRequest(userPhone, userMessage, soft)
  /\ UNCHANGED normVars

SendReturn ==
  /\ \E s \in sends, result \in WebhookResults : handleSendReturn(s, result)
  /\ UNCHANGED normVars

Background ==
  /\ \E h \in handlers, result \in WebhookResults :
        processWebhookInBackground(h, result)
  /\ UNCHANGED normVars

Sweep ==
  /\ Cleanup
  /\ UNCHANGED normVars

Advance ==
  /\ \E d \in Deltas : Tick(d)
  /\ UNCHANGED normVars

Next == Poll \/ Send \/ SendReturn \/ Background \/ Sweep \/ Advance

Spec == Init /\ [][Next]_vars

\* ------------------------------------------------------------------------
\* Properties of the conversation protocol
\* ------------------------------------------------------------------------
\* The step just taken answered a poll for key k.
Polled(k) == lastResult'.op = "poll" /\ lastResult'.phone = k

\* The background handlers awaiting the endpoint for key k.
HandlersOf(k) == {h \in handlers : h.phone = k}

\* C1: for every ConversationRecord the background completion handler is
\* started at most once, and it is started in the very poll step that sets
\* webhookCalled: a record has webhookCalled = TRUE exactly when its handler
\* was started once, so no later poll of the record starts it again.
C1_HandlerStartedOncePerRecord ==
  /\ \A i \in Ids : started[i] <= 1
  /\ \A k \in DOMAIN conversations :
        conversations[k].webhookCalled <=> started[conversations[k].id] = 1

\* A later poll of a record whose handler was started found the call due
\* again and did not start it again.
C1_Witness ==
  \E k \in DOMAIN conversations :
     /\ started[conversations[k].id] = 1
     /\ now - conversations[k].startTime >= POLLING_WAIT_TIME
     /\ lastResult.op = "poll" /\ lastResult.phone = k
     /\ lastResult.branch \in {"processing", "proc_empty"}

\* C2: for every key at most one background completion handler is awaiting
\* the endpoint (the store holds at most one record per key by construction).
C2_OneHandlerPerKey ==
  \A k \in Keys : Cardinality(HandlersOf(k)) <= 1

\* C3: a send on the deferred path for a key that has a non-completed
\* ConversationRecord is rejected and leaves the record and the stored
\* FinalResponse unchanged.
C3_SecondSendRejected ==
  [][\A k \in Keys :
       (/\ k \in DOMAIN conversations
        /\ ~conversations[k].completed
        /\ lastResult'.op = "send" /\ lastResult'.phone = k
        /\ lastResult'.branch \in {"deferred", "rejected"})
       => (/\ lastResult'.branch = "rejected"
           /\ conversations' = conversations
           /\ responses' = responses)]_vars

C5_NoneAfterTimeout ==
  [][\A k \in Keys :
       (lastPoll[k] = "hard_timeout" /\ Polled(k))
       => lastResult'.status = "none"]_vars

\* The status a poll branch answers with.
StatusOf(branch) ==
  CASE branch \in {"preparing", "waiting"} -> "waiting"
    [] branch \in {"empty", "proc_empty"} -> "empty"
    [] branch \in {"trigger", "processing"} -> "processing"
    [] branch \in {"stored", "completed", "hard_timeout"} -> "completed"
    [] OTHER -> "none"

\* Exactly one send was ever accepted, it created a record, and less than
\* MAX_TOTAL_TIME has passed since the service started, so that the record
\* has not reached the hard deadline.
OneConversation == nextId = 2 /\ nextSend = 1 /\ now < MAX_TOTAL_TIME

\* The phase of a status, as C6 claims it and as amended.
ClaimedPhase(status) ==
  CASE status \in {"waiting", "empty"} -> 1
    [] status = "processing" -> 2
    [] status = "completed" -> 3
    [] OTHER -> 4

Phase(status) ==
  CASE status = "waiting" -> 1
    [] status \in {"processing", "empty"} -> 2
    [] status = "completed" -> 3
    [] OTHER -> 4

\* The statuses of one deferred conversation, for the given statuses of a
\* poll before the call is due and of a poll while the call is outstanding,
\* and the given phases.
PollSequence(early, outstanding, phase(_)) ==
  \A k \in Keys :
     (OneConversation /\ Polled(k)) =>
       /\ k \in DOMAIN conversations
          => LET c == conversations[k]
                 due == now - c.startTime >= POLLING_WAIT_TIME
             IN /\ (~c.webhookCalled /\ ~due) => lastResult'.status \in early
                /\ (~c.webhookCalled /\ due)
                     => /\ lastResult'.status = "processing"
                        /\ Cardinality(handlers') = Cardinality(handlers) + 1
                /\ (c.webhookCalled /\ ~c.completed)
                     => /\ lastResult'.status \in outstanding
                        /\ handlers' = handlers
                /\ c.completed
                     => /\ lastResult'.status = "completed"
                        /\ k \in DOMAIN responses
                        /\ lastResult'.message = responses[k].message
       /\ lastPoll[k] \in {"completed", "stored"} => lastResult'.status = "none"
       /\ lastPoll[k] # "sent"
          => phase(lastResult'.status) >= phase(StatusOf(lastPoll[k]))

\* C6 as claimed: in one deferred conversation polls before POLLING_WAIT_TIME
\* answer "waiting" or "empty", the first poll from then on answers
\* "processing" and starts the call, polls while the call is outstanding
\* answer "processing", the first poll after it resolved answers "completed"
\* with the stored message, the next one "none", and the phases never go back.
C6_StatusOrder ==
  [][PollSequence({"waiting", "empty"}, {"processing"}, ClaimedPhase)]_vars

\* C6 as amended: as C6, but polls before POLLING_WAIT_TIME answer "waiting"
\* only, and polls while the call is outstanding answer "processing" or
\* "empty", which belongs to the phase of "processing".
C6_StatusOrderWithEmpty ==
  [][PollSequence({"waiting"}, {"processing", "empty"}, Phase)]_vars

\* One conversation ran through all its phases: its answer was delivered and
\* the poll after that found nothing.
C6_Witness ==
  /\ OneConversation
  /\ delivered[1] = 1
  /\ lastResult.op = "poll" /\ lastResult.status = "none"
  /\ lastPoll[lastResult.phone] = "none"

\* C7: the FinalResponse a background handler stored is returned by at most
\* one poll.
C7_DeliveredAtMostOnce == \A i \in Ids : delivered[i] <= 1

\* A FinalResponse was returned once and a later poll of the key returned
\* nothing.
C7_Witness ==
  /\ \E i \in Ids : delivered[i] = 1
  /\ lastResult.op = "poll" /\ lastResult.status = "none"

\* The service with a client that keeps polling, a clock that keeps running
\* and the periodic sweep; nothing is assumed about the background handlers,
\* which may never finish.
LiveSpec ==
  /\ Init
  /\ [][Next]_vars
  /\ WF_vars(Poll)
  /\ WF_vars(Advance)
  /\ WF_vars(Sweep)

\* The ConversationRecord created by the i-th accepted deferred send is
\* stored.
RecordLive(i) == \E k \in DOMAIN conversations : conversations[k].id = i

\* A poll of key k has just answered with a terminal status and deleted the
\* record of k.
TerminalPoll(k) ==
  /\ lastResult.op = "poll" /\ lastResult.phone = k
  /\ lastResult.branch \in {"hard_timeout", "completed"}
  /\ k \notin DOMAIN conversations

\* C8 as claimed: whenever a key has a ConversationRecord, some poll of the
\* key eventually answers with a terminal status and deletes the record.
C8_TerminalPollEventually ==
  \A k \in OneKey : (k \in DOMAIN conversations) ~> TerminalPoll(k)

\* C8 as amended: every ConversationRecord is eventually removed from the
\* store, by a poll that answers with a terminal status or, without any such
\* poll, by the sweep or by a later send for its key.
C8_RecordEventuallyDeleted ==
  \A i \in Ids : RecordLive(i) ~> ~RecordLive(i)

\* A record was created and is gone although its key was never polled.
C8_Witness ==
  \E k \in OneKey :
     /\ nextId > 1
     /\ lastPoll[k] = "sent"
     /\ k \notin DOMAIN conversations
     /\ sends = {}

\* C9: a FinalResponse stored for a failed endpoint call carries
\* success = FALSE, and so does the poll answer that delivers it.
C9_FailureStoredAsFailure ==
  /\ \A k \in DOMAIN responses :
        responses[k].message = FailureFallback => ~responses[k].success
  /\ (/\ lastResult.op = "poll"
      /\ lastResult.status = "completed"
      /\ lastResult.message = FailureFallback) => ~lastResult.success

\* ------------------------------------------------------------------------
\* Recipient normalization applied to bounded inputs
\* ------------------------------------------------------------------------
\* Pieces the toPhone inputs are put together from.
RawTokens ==
  { <<"1">>, <<"+">>, <<" ">>, <<"a">>, <<"-">>, WhatsAppPrefix,
    <<"W","h","a","t","s","A","p","p",":">> }

RECURSIVE Concat(_)
Concat(pieces) ==
  IF pieces = << >> THEN << >> ELSE Head(pieces) \o Concat(Tail(pieces))

RawInputs ==
  UNION { { Concat(pieces) : pieces \in [1..n -> RawTokens] } : n \in 0..MaxLen }

NormInit ==
  /\ StoreInit
  /\ raw \in RawInputs
  /\ userPhone1 = << >>
  /\ userPhone2 = << >>
  /\ pc = 0
  /\ lastData = NoData
  /\ lastRun = << >>
  /\ ClientInit
  /\ PageInit

\* POST computes the key (route.ts 689)
NormalizeOnce ==
  /\ pc = 0
  /\ userPhone1' = normalizeWhatsApp(raw)
  /\ pc' = 1
  /\ UNCHANGED << storeVars, raw, userPhone2, lastData, lastRun, clientVars, pageVars >>

\* The key is sent back as toPhone and normalized again
NormalizeTwice ==
  /\ pc = 1
  /\ userPhone2' = normalizeWhatsApp(userPhone1)
  /\ pc' = 2
  /\ UNCHANGED << storeVars, raw, userPhone1, lastData, lastRun, clientVars, pageVars >>

NormNext == NormalizeOnce \/ NormalizeTwice

NormSpec == NormInit /\ [][NormNext]_vars

\* C10: normalizing a normalized recipient changes nothing:
\* normalizeWhatsApp(normalizeWhatsApp(x)) = normalizeWhatsApp(x) for every
\* input x.
C10_NormalizeIdempotent == pc = 2 => userPhone2 = userPhone1

\* A prefixed, decorated input has been normalized twice.
C10_Witness ==
  /\ pc = 2
  /\ raw = <<"W","h","a","t","s","A","p","p",":">> \o <<" ", "1">>
  /\ userPhone1 = WhatsAppPrefix \o <<"+", "1">>

\* C11 as claimed: for every input, the empty string and a missing value
\* included, normalizeWhatsApp returns a non-empty string that starts with
\* "whatsapp:" followed by "+".
C11_NeverEmptyKey ==
  pc >= 1 => startsWith(userPhone1, WhatsAppPrefix \o <<"+">>)

\* C11 as amended: normalizeWhatsApp returns for every input; for the empty
\* string and a missing value it returns the empty string, and for every
\* other input, whitespace only included, a string that starts with
\* "whatsapp:" followed by "+".
C11_PrefixedUnlessMissing ==
  pc >= 1 =>
    IF raw = << >>
    THEN userPhone1 = << >>
    ELSE startsWith(userPhone1, WhatsAppPrefix \o <<"+">>)

\* A blank input was normalized to the prefix followed by "+" alone.
C11_Witness ==
  /\ pc >= 1
  /\ raw = <<" ">>
  /\ userPhone1 = WhatsAppPrefix \o <<"+">>

\* ------------------------------------------------------------------------
\* The route handler POST in front of the send and poll handlers
\* ------------------------------------------------------------------------
\* Requests handled in one exploration of PostSpec
MaxPosts == 3

\* Clock steps of the runs that follow records past MAX_CONVERSATION_AGE
MaxSweepTicks == 4

\* The characters of a string put together, as the template literal of
\* route.ts 149 does
RECURSIVE Join(_)
Join(s) == IF s = << >> THEN "" ELSE Head(s) \o Join(Tail(s))

RequiredPhoneError == "toPhone (WhatsApp number) is required"
RequiredMessageError == "Message is required"
InvalidActionError == "Invalid action. Use 'send' or 'poll'"

\* A response with HTTP status 400 (route.ts 690-695, 709-714, 718-721)
BadRequest(error) ==
  [op |-> "post", phone |-> "", status |-> "400", ok |-> FALSE,
   message |-> error, success |-> FALSE, branch |-> "bad_request"]

\* POST returns a 400 response: nothing of the store is touched
Reject(error) ==
  /\ lastResult' = BadRequest(error)
  /\ UNCHANGED << now, conversations, responses, activeRequests, handlers,
                  sends, nextId, nextSend, ticks, started, delivered, lastPoll >>

\* POST without the test of the message: a variant of the code under which
\* C13 fails
POST_NoMessageCheck(data) ==
  LET userMessage == data.message
      action == IF data.action = "" THEN "send" ELSE data.action
      isSoftSkillsQuestion == data.isSoftSkillsQuestion
      userPhone == normalizeWhatsApp(data.toPhone)
  IN IF userPhone = << >>
     THEN Reject(RequiredPhoneError)
     ELSE IF action = "poll"
     THEN handlePollRequest(Join(userPhone))
     ELSE IF action = "send"
     THEN handleSendRequest(Join(userPhone), userMessage, isSoftSkillsQuestion)
     ELSE Reject(InvalidActionError)

\* POST (route.ts 682-729) on a parsed body; a missing toPhone or message is
\* the empty string, a missing action is ""
POST(data) ==
  LET userMessage == data.message
      action == IF data.action = "" THEN "send" ELSE data.action
      isSoftSkillsQuestion == data.isSoftSkillsQuestion
      userPhone == normalizeWhatsApp(data.toPhone)
  IN IF userPhone = << >>
     THEN Reject(RequiredPhoneError)
     ELSE IF action = "poll"
     THEN handlePollRequest(Join(userPhone))
     ELSE IF action = "send"
     THEN IF userMessage = << >>
          THEN Reject(RequiredMessageError)
          ELSE handleSendRequest(Join(userPhone), userMessage, isSoftSkillsQuestion)
     ELSE Reject(InvalidActionError)

\* The toPhone values of the requests: one number, written in one way by
\* the sends and in another way by the polls
SendPhones == { <<"W","h","a","t","s","A","p","p",":","+","1">> }

PollPhones == { <<" ","1"," ">> }

\* The bodies of the requests; << >> is a missing toPhone or message
Requests ==
  [toPhone : SendPhones \cup {<< >>},
   action : {"send", ""},
   message : Messages \cup {<< >>},
   isSoftSkillsQuestion : BOOLEAN]
  \cup
  [toPhone : PollPhones \cup {<< >>},
   action : {"poll"},
   message : {<< >>},
   isSoftSkillsQuestion : {FALSE}]
  \cup
  [toPhone : SendPhones,
   action : {"status"},
   message : {<< >>},
   isSoftSkillsQuestion : {FALSE}]

\* A request arrives; pc counts the requests.
Request ==
  \E data \in Requests :
     /\ pc < MaxPosts
     /\ POST(data)
     /\ lastData' = data
     /\ pc' = pc + 1
     /\ UNCHANGED << raw, userPhone1, userPhone2, lastRun, clientVars, pageVars >>

PostNext == Request \/ SendReturn \/ Background \/ Sweep \/ Advance

PostSpec == Init /\ [][PostNext]_vars

\* C13: a request without toPhone, whatever its action, is answered with
\* HTTP 400 and "toPhone (WhatsApp number) is required"; a send with a
\* toPhone but without a message is answered with HTTP 400 and "Message is
\* required"; in both cases no endpoint call is started and records,
\* FinalResponses and active-request flags stay as they are.
C13_ValidationErrors ==
  [][pc' = pc + 1 =>
       LET missingPhone == lastData'.toPhone = << >>
           missingMessage == /\ lastData'.action \in {"send", ""}
                             /\ lastData'.message = << >>
       IN /\ missingPhone =>
               /\ lastResult'.status = "400"
               /\ lastResult'.message = "toPhone (WhatsApp number) is required"
          /\ (~missingPhone /\ missingMessage) =>
               /\ lastResult'.status = "400"
               /\ lastResult'.message = "Message is required"
          /\ (missingPhone \/ missingMessage) =>
               /\ conversations' = conversations
               /\ responses' = responses
               /\ activeRequests' = activeRequests
               /\ handlers' = handlers
               /\ sends' = sends]_vars

\* A send without a message was refused while a record was stored.
C13_Witness ==
  /\ lastData.action \in {"send", ""}
  /\ lastData.toPhone # << >>
  /\ lastData.message = << >>
  /\ lastResult.status = "400"
  /\ lastResult.message = "Message is required"
  /\ DOMAIN conversations # {}

\* The step handled a send with toPhone, message and isSoftSkillsQuestion:true.
HintedSend ==
  /\ pc' = pc + 1
  /\ lastData'.action \in {"send", ""}
  /\ lastData'.toPhone # << >>
  /\ lastData'.message # << >>
  /\ lastData'.isSoftSkillsQuestion

\* The step took the deferred path for key k: a completed record and its
\* FinalResponse are gone, a fresh record is stored, the answer is
\* "pending" and no endpoint call was started.
TookDeferredPath(k) ==
  /\ lastResult'.ok
  /\ lastResult'.status = "pending"
  /\ k \in DOMAIN conversations'
  /\ ~conversations'[k].webhookCalled
  /\ ~conversations'[k].completed
  /\ conversations'[k].emptyMessageCount = 0
  /\ conversations'[k].startTime = now
  /\ conversations'[k].lastEmptyMessageTime = now
  /\ conversations'[k].userMessage = lastData'.message
  /\ conversations'[k].id = nextId
  /\ (k \in DOMAIN conversations /\ conversations[k].completed)
       => k \notin DOMAIN responses'
  /\ handlers' = handlers
  /\ sends' = sends

Outputs == {"hi there", "success", "Success", " ", "  "}

\* Bodies of 2xx answers: JSON with or without output and message fields,
\* and plain text
AnswerBodies ==
  { [text |-> "{json}", json |-> TRUE, output |-> o, message |-> m,
     response |-> "", body |-> ""] :
       o \in Outputs \cup {""}, m \in {"", "from message"} }
  \cup { [text |-> "plain text", json |-> FALSE, output |-> "", message |-> "",
          response |-> "", body |-> ""] }

Answers ==
  { [kind |-> "ok", resp |-> b] : b \in AnswerBodies }
    \cup { [kind |-> "http", resp |-> "HTTP 500"],
           [kind |-> "abort", resp |-> "Timeout"],
           [kind |-> "error", resp |-> "fetch failed"] }

AnswerRuns == [1..Len(endpoints) -> Answers]

\* A send that does not ask for the deferred path
SendNow ==
  /\ \E userPhone \in OneKey, userMessage \in Messages :
        handleSendRequest(userPhone, userMessage, FALSE)
  /\ UNCHANGED normVars

\* The endpoints answer and the send returns
ReturnNow ==
  /\ \E s \in sends, run \in AnswerRuns :
        /\ handleSendReturn(s, sendToWebhook(run))
        /\ lastRun' = run
  /\ UNCHANGED << raw, userPhone1, userPhone2, pc, lastData, clientVars, pageVars >>

ImmediateNext == SendNow \/ ReturnNow

ImmediateSpec == Init /\ [][ImmediateNext]_vars

\* The send that just returned was answered 2xx by an endpoint, with a JSON
\* body that has the given output field.
AnsweredWith(o) ==
  /\ lastResult.op = "send" /\ lastResult.branch = "immediate"
  /\ \E i \in 1..Len(lastRun) :
        /\ lastRun[i].kind = "ok"
        /\ lastRun[i].resp.json
        /\ lastRun[i].resp.output = o
        /\ \A j \in 1..(i - 1) : lastRun[j].kind # "ok"

\* C14 as claimed: an immediate send whose endpoint answers 2xx with a JSON
\* body that has an output field returns ok:true and that output as its
\* message, for every output.
C14_MessageIsOutput ==
  \A o \in Outputs :
     AnsweredWith(o) => lastResult.ok /\ lastResult.message = o

\* C14 as amended: such a send returns ok:true and the output as its
\* message, except that an output of whitespace only, "success" or
\* "Success" is replaced by the fixed thank-you message.
C14_MessageIsOutputOrDefault ==
  \A o \in Outputs :
     AnsweredWith(o) =>
       /\ lastResult.ok
       /\ lastResult.message =
            IF o \in {" ", "  ", "success", "Success"}
            THEN "Thank you for your message! I've received your information and will help you find the best opportunities."
            ELSE o

\* A send returned "hi there", the output of the second endpoint, after the
\* first endpoint had failed.
C14_Witness ==
  /\ AnsweredWith("hi there")
  /\ lastRun[1].kind = "http"
  /\ lastRun[2].resp.message = "from message"
  /\ lastResult.message = "hi there"

\* ------------------------------------------------------------------------
\* One number written in two ways: a send, then a poll
\* ------------------------------------------------------------------------
\* Ways of writing the transport prefix
PrefixSpellings ==
  { WhatsAppPrefix,
    <<"W","h","a","t","s","A","p","p",":">>,
    <<"W","H","A","T","S","A","P","P",":">> }

\* Characters that are neither "+" nor a digit
Separators == {"a", "-"}

Blanks == {<< >>, <<" ">>}

Insert(x, i, c) == SubSeq(x, 1, i) \o <<c>> \o SubSeq(x, i + 1, Len(x))

HasPlus(x) == \E i \in 1..Len(x) : x[i] = "+"

\* The values that differ from x by a prefix or its letter case, by
\* surrounding whitespace or by separators
Respelled(x) ==
  { p \o x : p \in PrefixSpellings }
  \cup { l \o x \o r : l, r \in Blanks }
  \cup { Insert(x, i, c) : i \in 0..Len(x), c \in Separators }
  \cup { q \o slice(x, 9) :
           q \in {q \in PrefixSpellings : \E p \in PrefixSpellings : startsWith(x, p)} }

SoftSkillsMessage == <<"T","e","a","m","w","o","r","k">>

\* A send that asks for the deferred path, toPhone written as raw
SendAs ==
  /\ pc = 0
  /\ POST([toPhone |-> raw, action |-> "send", message |-> SoftSkillsMessage,
           isSoftSkillsQuestion |-> TRUE])
  /\ pc' = 1
  /\ UNCHANGED << raw, userPhone1, userPhone2, lastData, lastRun, clientVars, pageVars >>

\* A poll whose toPhone is written as toPhone; userPhone1 keeps it
PollAs(toPhone, step) ==
  /\ pc = 1
  /\ POST([toPhone |-> toPhone, action |-> "poll", message |-> << >>,
           isSoftSkillsQuestion |-> FALSE])
  /\ userPhone1' = toPhone
  /\ pc' = step
  /\ UNCHANGED << raw, userPhone2, lastData, lastRun, clientVars, pageVars >>

PollRespelled == \E y \in Respelled(raw) : PollAs(y, 2)

PollWithPlus == PollAs(<<"+">> \o raw, 3)

KeyNext == SendAs \/ PollRespelled \/ PollWithPlus

KeySpec == NormInit /\ [][KeyNext]_vars

\* The poll was answered from the record the send created.
PollReachedSend ==
  /\ lastResult.op = "poll"
  /\ lastResult.status = "waiting"
  /\ Cardinality(DOMAIN conversations) = 1
  /\ lastResult.phone \in DOMAIN conversations
  /\ normalizeWhatsApp(userPhone1) = normalizeWhatsApp(raw)

\* C12 as claimed: a send and a poll whose toPhone values differ only by
\* the prefix or its letter case, by a leading "+", by surrounding
\* whitespace or by separators work under the same key, so that the poll is
\* answered from the record the send created (or both are refused for want
\* of a toPhone).
C12_AllFormatsAgree ==
  pc \in {2, 3} =>
     \/ PollReachedSend
     \/ /\ normalizeWhatsApp(raw) = << >>
        /\ normalizeWhatsApp(userPhone1) = << >>

\* C12 as amended: the same for toPhone values that are not empty, where a
\* leading "+" makes no difference only when it is put before a value that
\* has no "+".
C12_FormatsAgree ==
  (raw # << >> /\ (pc = 2 \/ (pc = 3 /\ ~HasPlus(raw)))) => PollReachedSend

\* A poll that wrote the number as "WhatsApp:1" was answered from the
\* record of a send that wrote it as "1".
C12_Witness ==
  /\ pc = 2
  /\ raw = <<"1">>
  /\ userPhone1 = <<"W","h","a","t","s","A","p","p",":","1">>
  /\ PollReachedSend

\* ------------------------------------------------------------------------
\* Properties of one ConversationRecord
\* ------------------------------------------------------------------------
\* The record held for key k before and after the step is the same record.
SameRecord(k) ==
  /\ k \in DOMAIN conversations
  /\ k \in DOMAIN conversations'
  /\ conversations'[k].id = conversations[k].id

\* C16: while a ConversationRecord lives, its startTime and userMessage do
\* not change, webhookCalled and completed only go from FALSE to TRUE, and
\* webhookStartTime changes in exactly the steps that set webhookCalled.
C16_RecordFieldsStable ==
  [][\A k \in Keys :
       SameRecord(k) =>
         /\ conversations'[k].startTime = conversations[k].startTime
         /\ conversations'[k].userMessage = conversations[k].userMessage
         /\ conversations[k].webhookCalled => conversations'[k].webhookCalled
         /\ conversations[k].completed => conversations'[k].completed
         /\ (conversations'[k].webhookStartTime # conversations[k].webhookStartTime)
              <=> (~conversations[k].webhookCalled /\ conversations'[k].webhookCalled)
     ]_vars

\* A record went through both changes: its call was started at a later time
\* than its creation, its handler has finished, and it was polled since.
C16_Witness ==
  \E k \in DOMAIN conversations :
     /\ conversations[k].webhookCalled
     /\ conversations[k].completed
     /\ conversations[k].webhookStartTime > conversations[k].startTime
     /\ now > conversations[k].webhookStartTime
     /\ conversations[k].emptyMessageCount >= 1

\* ------------------------------------------------------------------------
\* Requests for two correlation keys
\* ------------------------------------------------------------------------
\* A poll request for either key
PollAny ==
  /\ pc < MaxPosts
  /\ \E userPhone \in Keys : handlePollRequest(userPhone)
  /\ pc' = pc + 1
  /\ UNCHANGED << raw, userPhone1, userPhone2, lastData, lastRun, clientVars, pageVars >>

\* A send request for either key
SendAny ==
  /\ pc < MaxPosts
  /\ \E userPhone \in Keys, userMessage \in Messages, soft \in BOOLEAN :
        handleSendRequest(userPhone, userMessage, soft)
  /\ pc' = pc + 1
  /\ UNCHANGED << raw, userPhone1, userPhone2, lastData, lastRun, clientVars, pageVars >>

TwoKeyNext == PollAny \/ SendAny \/ SendReturn \/ Background \/ Sweep \/ Advance

TwoKeySpec == Init /\ [][TwoKeyNext]_vars

\* The keys the step acted for: the key of the request it answered, of the
\* immediate send it started or finished, of the background handler it
\* started or finished.  Empty for the sweep and for the clock.
ActedFor ==
  (IF lastResult'.op \in {"poll", "send"} THEN {lastResult'.phone} ELSE {})
    \cup {s.phone : s \in (sends' \ sends) \cup (sends \ sends')}
    \cup {h.phone : h \in (handlers' \ handlers) \cup (handlers \ handlers')}

\* What the store holds for key b: its record, its FinalResponse, its flag.
Held(c, r, a, b) ==
  << IF b \in DOMAIN c THEN << c[b] >> ELSE << >>,
     IF b \in DOMAIN r THEN << r[b] >> ELSE << >>,
     IF b \in DOMAIN a THEN a[b] ELSE FALSE >>

\* C17: a send, a poll or a background-handler completion for key a leaves
\* the ConversationRecord, the FinalResponse and the active-request flag of
\* every other key b unchanged.
C17_KeysIndependent ==
  [][\A a \in ActedFor : \A b \in Keys \ {a} :
       Held(conversations', responses', activeRequests', b)
         = Held(conversations, responses, activeRequests, b)
     ]_vars

\* One key holds a record whose handler has finished and stored a
\* FinalResponse while the other key holds a record that no poll has touched
\* and a set flag.
C17_Witness ==
  \E a \in Keys : \E b \in Keys \ {a} :
     /\ a \in DOMAIN conversations /\ conversations[a].completed
     /\ a \in DOMAIN responses
     /\ b \in DOMAIN conversations /\ ~conversations[b].webhookCalled
     /\ b \notin DOMAIN responses
     /\ hasActiveRequest(b) /\ ~hasActiveRequest(a)

\* ------------------------------------------------------------------------
\* Handlers that outlive their record
\* ------------------------------------------------------------------------
\* The record that background handler h was started for is no longer stored.
Outlived(h) == ~RecordLive(h.id)

\* C18: when the background handler of a purged record finishes, it creates
\* no ConversationRecord and changes no record created later for the same
\* key, and a poll that answers from a record never returns the
\* FinalResponse written by the handler of an earlier record.
C18_LateHandlerBenign ==
  [][/\ \A h \in handlers : \A result \in WebhookResults :
          (Outlived(h) /\ processWebhookInBackground(h, result))
            => conversations' = conversations
     /\ \A k \in Keys :
          (/\ Polled(k)
           /\ lastResult'.branch = "completed")
            => responses[k].hid = conversations[k].id
    ]_vars

\* ------------------------------------------------------------------------
\* Polls that find no record, polls that find a completed record
\* ------------------------------------------------------------------------
\* C19: a poll for a key with no ConversationRecord answers "completed" with
\* the message and the success flag of the stored FinalResponse and deletes
\* that response when one is stored, and answers "none" otherwise; either
\* way it creates no record and starts no endpoint call.
C19_PollWithoutRecord ==
  [][\A k \in Keys :
       (Polled(k) /\ k \notin DOMAIN conversations) =>
         /\ IF k \in DOMAIN responses
            THEN /\ lastResult'.status = "completed"
                 /\ lastResult'.message = responses[k].message
                 /\ lastResult'.success = responses[k].success
                 /\ k \notin DOMAIN responses'
            ELSE /\ lastResult'.status = "none"
                 /\ responses' = responses
         /\ conversations' = conversations
         /\ handlers' = handlers
         /\ sends' = sends
         /\ started' = started
     ]_vars

\* A poll found no record but a stored FinalResponse, answered with it and
\* deleted it.
C19_Witness ==
  \E k \in Keys :
     /\ lastResult.op = "poll" /\ lastResult.phone = k
     /\ lastResult.branch = "stored"
     /\ lastResult.status = "completed"
     /\ k \notin DOMAIN conversations
     /\ k \notin DOMAIN responses
     /\ \E i \in Ids : delivered[i] = 1

CompletedHasResponse ==
  \A k \in DOMAIN conversations :
     conversations[k].completed => k \in DOMAIN responses

\* ------------------------------------------------------------------------
\* The poll that starts the deferred call
\* ------------------------------------------------------------------------
\* The background handlers the step started.
Started == handlers' \ handlers

\* C21: a background handler is started only by a poll that finds the
\* record with webhookCalled = FALSE, completed = FALSE and
\* POLLING_WAIT_TIME <= now - startTime < MAX_TOTAL_TIME; that poll sets
\* webhookCalled and webhookStartTime = now, starts exactly the handler of
\* that record, answers "processing" and stores or returns no FinalResponse.
C21_CallStartedByDuePoll ==
  [][Started # {} =>
       \E k \in Keys :
          /\ Polled(k)
          /\ k \in DOMAIN conversations
          /\ ~conversations[k].webhookCalled
          /\ ~conversations[k].completed
          /\ now - conversations[k].startTime >= POLLING_WAIT_TIME
          /\ now - conversations[k].startTime < MAX_TOTAL_TIME
          /\ SameRecord(k)
          /\ conversations'[k].webhookCalled
          /\ conversations'[k].webhookStartTime = now
          /\ ~conversations'[k].completed
          /\ Cardinality(Started) = 1
          /\ \A h \in Started :
                /\ h.phone = k
                /\ h.id = conversations[k].id
                /\ h.userMessage = conversations[k].userMessage
          /\ lastResult'.status = "processing"
          /\ responses' = responses
     ]_vars

\* A poll has just started the handler of a record whose call was due.
C21_Witness ==
  \E k \in DOMAIN conversations :
     /\ lastResult.op = "poll" /\ lastResult.phone = k
     /\ lastResult.branch = "trigger"
     /\ conversations[k].webhookStartTime = now
     /\ now - conversations[k].startTime >= POLLING_WAIT_TIME
     /\ \E h \in handlers : h.id = conversations[k].id
     /\ ~conversations[k].completed

\* ------------------------------------------------------------------------
\* Polls while the deferred call is outstanding, polls before it is due
\* ------------------------------------------------------------------------
\* The poll of key k found the record with its call started and not finished,
\* before the hard deadline.
FoundProcessing(k) ==
  /\ Polled(k)
  /\ k \in DOMAIN conversations
  /\ conversations[k].webhookCalled
  /\ ~conversations[k].completed
  /\ ~hardTimeout(conversations[k])

\* The step changed nothing in the store.
StoreUntouched ==
  /\ conversations' = conversations
  /\ responses' = responses
  /\ activeRequests' = activeRequests
  /\ handlers' = handlers

\* The step set lastEmptyMessageTime of the record of k to now, added one to
\* its emptyMessageCount, and changed nothing else in the store.
OnlyBumped(k) ==
  /\ conversations' =
       [conversations EXCEPT ![k].lastEmptyMessageTime = now,
                             ![k].emptyMessageCount = @ + 1]
  /\ responses' = responses
  /\ activeRequests' = activeRequests
  /\ handlers' = handlers

\* The rotation entry for count c.
Rotation(c) == emptyMessages[(c % Len(emptyMessages)) + 1]

\* C22 as claimed: every poll that finds webhookCalled = TRUE and
\* completed = FALSE before the hard deadline answers "processing" and
\* changes nothing in the store.
C22_ProcessingPollChangesNothing ==
  [][\A k \in Keys :
       FoundProcessing(k) =>
         /\ lastResult'.status = "processing"
         /\ StoreUntouched
     ]_vars

\* C22 as amended: such a poll answers "processing" and changes nothing in
\* the store while less than EMPTY_MESSAGE_INTERVAL has passed since
\* lastEmptyMessageTime; otherwise it answers "empty" with the rotation entry
\* of the incremented count, sets lastEmptyMessageTime to now and adds one to
\* emptyMessageCount, and changes nothing else.
C22_ProcessingPollOrEmpty ==
  [][\A k \in Keys :
       FoundProcessing(k) =>
         IF now - conversations[k].lastEmptyMessageTime < EMPTY_MESSAGE_INTERVAL
         THEN /\ lastResult'.status = "processing"
              /\ StoreUntouched
         ELSE /\ lastResult'.status = "empty"
              /\ lastResult'.message = Rotation(conversations[k].emptyMessageCount + 1)
              /\ OnlyBumped(k)
     ]_vars

\* Both cases happened for one record: a poll answered "processing" right
\* after an earlier poll of the same outstanding call had answered "empty".
C22_Witness ==
  \E k \in DOMAIN conversations :
     /\ lastResult.op = "poll" /\ lastResult.phone = k
     /\ lastResult.branch = "processing"
     /\ conversations[k].webhookCalled /\ ~conversations[k].completed
     /\ conversations[k].emptyMessageCount >= 1
     /\ conversations[k].lastEmptyMessageTime > conversations[k].webhookStartTime

\* Clock steps shorter than POLLING_WAIT_TIME
ShortDeltas == {2000, 8000}

\* Time passes by less than POLLING_WAIT_TIME
Brief ==
  /\ \E d \in ShortDeltas : Tick(d)
  /\ UNCHANGED normVars

FillerNext == Poll \/ Send \/ SendReturn \/ Background \/ Sweep \/ Brief

FillerSpec == Init /\ [][FillerNext]_vars

\* The poll of key k found the record with its call not started and not
\* finished, before the call was due.
FoundEarly(k) ==
  /\ Polled(k)
  /\ k \in DOMAIN conversations
  /\ ~conversations[k].webhookCalled
  /\ ~conversations[k].completed
  /\ now - conversations[k].startTime < POLLING_WAIT_TIME

\* C23 as claimed: a poll before the call is due with webhookCalled = FALSE
\* answers "empty" with the rotation entry of the incremented count, sets
\* lastEmptyMessageTime to now and adds one to emptyMessageCount when
\* EMPTY_MESSAGE_INTERVAL has passed since lastEmptyMessageTime, and
\* otherwise answers "waiting" with the rotation entry of the current count
\* and changes no state.
C23_FillerBeforeDue ==
  [][\A k \in Keys :
       FoundEarly(k) =>
         IF now - conversations[k].lastEmptyMessageTime >= EMPTY_MESSAGE_INTERVAL
         THEN /\ lastResult'.status = "empty"
              /\ lastResult'.message = Rotation(conversations[k].emptyMessageCount + 1)
              /\ OnlyBumped(k)
         ELSE /\ lastResult'.status = "waiting"
              /\ lastResult'.message = Rotation(conversations[k].emptyMessageCount)
              /\ StoreUntouched
     ]_vars

\* C23 as amended: a poll before the call is due with webhookCalled = FALSE
\* and completed = FALSE answers "waiting" with the fixed preparing text and
\* changes no state, however long ago lastEmptyMessageTime is.  Every poll
\* that answers "empty" finds EMPTY_MESSAGE_INTERVAL passed since
\* lastEmptyMessageTime, sets it to now, adds exactly one to
\* emptyMessageCount and answers with the rotation entry of the new count;
\* no other step changes lastEmptyMessageTime of a record, so two "empty"
\* answers for one record are at least EMPTY_MESSAGE_INTERVAL apart.
C23_WaitingBeforeDue ==
  [][\A k \in Keys :
       /\ FoundEarly(k) =>
            /\ lastResult'.status = "waiting"
            /\ lastResult'.message = "Preparing to process your information..."
            /\ StoreUntouched
       /\ (Polled(k) /\ lastResult'.status = "empty") =>
            /\ k \in DOMAIN conversations
            /\ now - conversations[k].lastEmptyMessageTime >= EMPTY_MESSAGE_INTERVAL
            /\ lastResult'.message = Rotation(conversations[k].emptyMessageCount + 1)
            /\ OnlyBumped(k)
       /\ (SameRecord(k) /\ ~(Polled(k) /\ lastResult'.status = "empty")) =>
            conversations'[k].lastEmptyMessageTime
              = conversations[k].lastEmptyMessageTime
     ]_vars

\* A poll before the call was due, EMPTY_MESSAGE_INTERVAL after the record
\* was created, answered "waiting" and left the count at zero.
C23_Witness ==
  \E k \in DOMAIN conversations :
     /\ lastResult.op = "poll" /\ lastResult.phone = k
     /\ lastResult.branch = "preparing"
     /\ now - conversations[k].lastEmptyMessageTime >= EMPTY_MESSAGE_INTERVAL
     /\ now - conversations[k].startTime < POLLING_WAIT_TIME
     /\ conversations[k].emptyMessageCount = 0

\* ------------------------------------------------------------------------
\* What the background handler leaves behind
\* ------------------------------------------------------------------------
\* The background handlers the step finished.
Finished == handlers \ handlers'

\* The messages a handler can store: the message of a successful call, or
\* the fallback text of a failed one.
HandlerMessages ==
  {result.message : result \in {r \in WebhookResults : r.ok}}
    \cup {FailureFallback}

\* C24: whether the endpoint call succeeded or failed, the step in which a
\* background handler finishes stores the handler's FinalResponse under its
\* key, creates or deletes no record, and sets completed on the record of
\* the key if one is stored; and no record is ever completed without a
\* FinalResponse stored for its key, so the response is written no later
\* than completed becomes TRUE.
C24_HandlerStoresThenCompletes ==
  [][/\ \A h \in Finished :
          /\ h.phone \in DOMAIN responses'
          /\ responses'[h.phone].hid = h.id
          /\ responses'[h.phone].timestamp = now
          /\ responses'[h.phone].message \in HandlerMessages
          /\ DOMAIN conversations' = DOMAIN conversations
          /\ h.phone \in DOMAIN conversations =>
               conversations'[h.phone].completed
     /\ \A k \in DOMAIN conversations' :
          conversations'[k].completed => k \in DOMAIN responses'
    ]_vars

\* A handler whose call failed on every endpoint has just finished: its
\* fallback text is stored and the record it was started for is completed.
C24_Witness ==
  \E k \in DOMAIN conversations :
     /\ conversations[k].completed /\ conversations[k].webhookCalled
     /\ k \in DOMAIN responses
     /\ responses[k].message = FailureFallback
     /\ responses[k].hid = conversations[k].id
     /\ responses[k].timestamp = now
     /\ handlers = {}
     /\ lastResult = NoResult

\* ------------------------------------------------------------------------
\* Endpoint Client, one attempt at a time
\* ------------------------------------------------------------------------
RECURSIVE Repeat(_, _)
Repeat(s, n) ==
  IF n = 0 THEN ""
  ELSE IF n % 2 = 0 THEN LET half == Repeat(s, n \div 2) IN half \o half
  ELSE s \o Repeat(s, n - 1)

\* An output of 2004 characters
LongOutput == Repeat("a", 2004)

\* The output fields the endpoints answer with here.
ClientOutputs == {"hi there", "success", " ", LongOutput}

ClientBodies ==
  { [text |-> "{output}", json |-> TRUE, output |-> o,
       message |-> "", response |-> "", body |-> ""] : o \in ClientOutputs }

\* What the network does with one fetch of a sendToWebhook call.
ClientOutcomes ==
  { [kind |-> "ok", resp |-> b] : b \in ClientBodies }
    \cup { o \in AttemptOutcomes : o.kind # "ok" }

\* The timeouts sendToWebhook is called with (route.ts 339, 647)
Timeouts == {WEBHOOK_TIMEOUT, NORMAL_MESSAGE_TIMEOUT}

\* The wait after a failed attempt (route.ts 200)
EndpointDelay == 2000

\* The loop staying on the endpoint after its first failure: a variant of
\* the code under which C25 and C26 fail
nextEndpoint_RetryOnce(u, result) == IF Len(attempts) = 0 THEN u ELSE u + 1

\* for (const url of this.endpoints): after a failed attempt the loop goes
\* on to the next endpoint, whatever the failure was (route.ts 187-201)
nextEndpoint(u, result) == u + 1

\* The loop ending after the first endpoint: a variant of the code under
\* which C27 fails
exhausted_Early(u) == u > 1

\* The loop has gone through all endpoints (route.ts 187, 203)
exhausted(u) == u > Len(endpoints)

\* sendToWebhook is called (route.ts 178-184)
CallWebhook ==
  /\ url = 0
  /\ \E userMessage \in Messages, timeoutMs \in Timeouts :
        payload' = [userMessage |-> userMessage, timeoutMs |-> timeoutMs]
  /\ url' = 1
  /\ UNCHANGED << attempts, clientResult >>
  /\ UNCHANGED << storeVars, raw, userPhone1, userPhone2, pc, lastData, lastRun,
                  pageVars >>

\* One pass of the loop: attemptWebhookCall on the endpoint the loop is at,
\* then return on ok, else wait and go on (route.ts 187-201)
Attempt ==
  /\ url \in 1..Len(endpoints)
  /\ clientResult = Pending
  /\ \E outcome \in ClientOutcomes :
        LET result == attemptWebhookCall(outcome)
        IN IF result.ok
           THEN /\ attempts' = Append(attempts,
                                 [url |-> url, outcome |-> outcome, delay |-> 0])
                /\ clientResult' = result
                /\ url' = url
           ELSE /\ attempts' = Append(attempts,
                                 [url |-> url, outcome |-> outcome,
                                  delay |-> EndpointDelay])
                /\ clientResult' = clientResult
                /\ url' = nextEndpoint(url, result)
  /\ UNCHANGED << payload, storeVars, raw, userPhone1, userPhone2, pc, lastData,
                  lastRun, pageVars >>

\* No endpoint is left (route.ts 203-207)
GiveUp ==
  /\ url >= 1
  /\ exhausted(url)
  /\ clientResult = Pending
  /\ clientResult' = [ok |-> FALSE,
                      message |-> "Unable to reach webhook after all attempts",
                      error |-> "All webhook endpoints failed"]
  /\ UNCHANGED << payload, url, attempts, storeVars, raw, userPhone1, userPhone2,
                  pc, lastData, lastRun, pageVars >>

ClientNext == CallWebhook \/ Attempt \/ GiveUp

\* Every fetch ends, by an answer, an error or the abort timer of
\* attemptWebhookCall (route.ts 220-224), and the loop then goes on.
ClientSpec ==
  /\ Init
  /\ [][ClientNext]_vars
  /\ WF_vars(Attempt)
  /\ WF_vars(GiveUp)

\* How many attempts of the call were made on endpoint e.
AttemptsOn(e) == Cardinality({i \in 1..Len(attempts) : attempts[i].url = e})

\* An attempt on endpoint e ended by the abort timer.
TimedOutOn(e) ==
  \E i \in 1..Len(attempts) :
     attempts[i].url = e /\ attempts[i].outcome.kind = "abort"

\* The endpoints are tried in list order.
InListOrder ==
  \A i, j \in 1..Len(attempts) : i < j => attempts[i].url <= attempts[j].url

\* The call has returned.
Returned == clientResult # Pending

\* C25 as claimed: the endpoints are tried in list order, with at most 2
\* attempts on an endpoint; a later endpoint is tried only after the earlier
\* ones had their 2 attempts or an attempt ended by timeout; a call makes at
\* most 2 x (number of endpoints) attempts and then returns.
C25_TwoAttemptsPerEndpoint ==
  /\ [](/\ InListOrder
        /\ \A e \in 1..Len(endpoints) : AttemptsOn(e) <= 2
        /\ \A i \in 1..Len(attempts) : \A e \in 1..(attempts[i].url - 1) :
              AttemptsOn(e) = 2 \/ TimedOutOn(e)
        /\ Len(attempts) <= 2 * Len(endpoints))
  /\ (url = 1 ~> Returned)

\* C25 as amended: the endpoints are tried in list order with exactly one
\* attempt on each endpoint tried, so the i-th attempt is on the i-th
\* endpoint; a call makes at most (number of endpoints) attempts and then
\* returns.
C25_OneAttemptPerEndpoint ==
  /\ [](/\ InListOrder
        /\ \A i \in 1..Len(attempts) : attempts[i].url = i
        /\ \A e \in 1..Len(endpoints) : AttemptsOn(e) <= 1
        /\ Len(attempts) <= Len(endpoints))
  /\ (url = 1 ~> Returned)

\* A call went through all endpoints, none answering 2xx and none timing
\* out, and returned.
C25_Witness ==
  /\ Returned
  /\ Len(attempts) = Len(endpoints)
  /\ \A i \in 1..Len(attempts) : attempts[i].outcome.kind \in {"http", "error"}
  /\ ~clientResult.ok

\* The i-th attempt failed and another attempt followed it.
FailedAndFollowed(i) ==
  /\ i < Len(attempts)
  /\ attempts[i].outcome.kind # "ok"

\* C26 as claimed: an attempt that ends by timeout is followed by an attempt
\* on the next endpoint, and an attempt that ends with a non-2xx status or
\* another transport error is followed, after the backoff, by a second
\* attempt on the same endpoint while the endpoint has had fewer than 2.
C26_TimeoutSkipsOthersRetry ==
  \A i \in 1..Len(attempts) :
     FailedAndFollowed(i) =>
       IF attempts[i].outcome.kind = "abort"
       THEN attempts[i + 1].url = attempts[i].url + 1
       ELSE /\ attempts[i].delay = EndpointDelay
            /\ attempts[i + 1].url =
                 IF \E j \in 1..(i - 1) : attempts[j].url = attempts[i].url
                 THEN attempts[i].url + 1 ELSE attempts[i].url

\* C26 as amended: every failed attempt, whether it ended by timeout, with a
\* non-2xx status or with another transport error, ends the trying of its
\* endpoint: the client waits the fixed delay and the attempt that follows
\* is on the next endpoint; no endpoint is tried again.
C26_EveryFailureMovesOn ==
  \A i \in 1..Len(attempts) :
     /\ attempts[i].outcome.kind # "ok" =>
          /\ attempts[i].delay = EndpointDelay
          /\ url > attempts[i].url
     /\ FailedAndFollowed(i) =>
          attempts[i + 1].url = attempts[i].url + 1

\* The first endpoint answered with a non-2xx status, the second timed out,
\* and the call gave up.
C26_Witness ==
  /\ Len(attempts) = 2
  /\ attempts[1].outcome.kind = "http" /\ attempts[1].url = 1
  /\ attempts[2].outcome.kind = "abort" /\ attempts[2].url = 2
  /\ Returned

C29_MessageBounded ==
  (Returned /\ clientResult.ok) =>
     /\ Len(clientResult.message) <= 2000 + 3
     /\ LET output == attempts[Len(attempts)].outcome.resp.output
        IN (Len(output) <= 2000 /\ output \notin {" ", "success"})
              => clientResult.message = output

\* ------------------------------------------------------------------------
\* Runs that reach MAX_CONVERSATION_AGE
\* ------------------------------------------------------------------------
\* A send that asks for the deferred path with a soft-skills message
SendDeferred ==
  /\ \E userPhone \in OneKey :
        handleSendRequest(userPhone, SoftSkillsMessage, TRUE)
  /\ UNCHANGED normVars

\* Time passes, up to MaxSweepTicks times
Elapse ==
  /\ Timestamps # {}
  /\ ticks < MaxSweepTicks
  /\ \E d \in Deltas : now' = now + d
  /\ ticks' = ticks + 1
  /\ lastResult' = NoResult
  /\ UNCHANGED << conversations, responses, activeRequests, handlers, sends,
                  nextId, nextSend, started, delivered, lastPoll >>
  /\ UNCHANGED normVars

SweepNext == Poll \/ SendDeferred \/ Background \/ Sweep \/ Elapse

SweepSpec == Init /\ [][SweepNext]_vars

\* The record of key k is older than MAX_CONVERSATION_AGE.
StaleRecord(k) ==
  /\ k \in DOMAIN conversations
  /\ now - conversations[k].startTime > MAX_CONVERSATION_AGE

\* The FinalResponse of key k is older than MAX_CONVERSATION_AGE.
OldResponse(k) ==
  /\ k \in DOMAIN responses
  /\ now - responses[k].timestamp > MAX_CONVERSATION_AGE

\* The step left the FinalResponse of key k as it was.
ResponseKept(k) ==
  /\ (k \in DOMAIN responses') <=> (k \in DOMAIN responses)
  /\ k \in DOMAIN responses => responses'[k] = responses[k]

\* C28 as claimed: a sweep removes every record older than
\* MAX_CONVERSATION_AGE together with the FinalResponse of its key and
\* leaves every other record unchanged together with the FinalResponse of
\* its key; after it no record older than MAX_CONVERSATION_AGE is stored.
C28_SweepByRecordAge ==
  [][Cleanup =>
       /\ \A k \in Keys :
             /\ StaleRecord(k) =>
                  (k \notin DOMAIN conversations' /\ k \notin DOMAIN responses')
             /\ (k \in DOMAIN conversations /\ ~StaleRecord(k)) =>
                  /\ k \in DOMAIN conversations'
                  /\ conversations'[k] = conversations[k]
                  /\ ResponseKept(k)
       /\ \A k \in DOMAIN conversations' :
             now - conversations'[k].startTime <= MAX_CONVERSATION_AGE
     ]_vars

\* C28 as amended: a sweep removes every record older than
\* MAX_CONVERSATION_AGE together with the FinalResponse of its key, and
\* every FinalResponse whose own timestamp is older than
\* MAX_CONVERSATION_AGE, whether or not a record is stored for its key; it
\* leaves every other record and every other FinalResponse unchanged; after
\* it no record and no FinalResponse older than MAX_CONVERSATION_AGE is
\* stored.
C28_SweepByRecordAndResponseAge ==
  [][Cleanup =>
       /\ \A k \in Keys :
             /\ StaleRecord(k) =>
                  (k \notin DOMAIN conversations' /\ k \notin DOMAIN responses')
             /\ (k \in DOMAIN conversations /\ ~StaleRecord(k)) =>
                  /\ k \in DOMAIN conversations'
                  /\ conversations'[k] = conversations[k]
             /\ OldResponse(k) => k \notin DOMAIN responses'
             /\ (~StaleRecord(k) /\ ~OldResponse(k)) => ResponseKept(k)
       /\ DOMAIN conversations' \subseteq DOMAIN conversations
       /\ DOMAIN responses' \subseteq DOMAIN responses
       /\ \A k \in DOMAIN conversations' :
             now - conversations'[k].startTime <= MAX_CONVERSATION_AGE
       /\ \A k \in DOMAIN responses' :
             now - responses'[k].timestamp <= MAX_CONVERSATION_AGE
     ]_vars

\* A record whose handler had finished was never polled again nor replaced,
\* and is gone together with its FinalResponse: the sweep removed both.
C28_Witness ==
  \E k \in OneKey :
     /\ nextId = 2
     /\ started[1] = 1 /\ delivered[1] = 0
     /\ handlers = {}
     /\ lastPoll[k] = "trigger"
     /\ k \notin DOMAIN conversations
     /\ k \notin DOMAIN responses
     /\ now > MAX_CONVERSATION_AGE

\* ------------------------------------------------------------------------
\* Whose answer a poll delivers
\* ------------------------------------------------------------------------
\* C30: a poll that answers "completed" from a record before the hard
\* deadline delivers the FinalResponse stored by the handler that was
\* started for that very record, that is, by the endpoint call that carried
\* the record's userMessage; it never delivers the FinalResponse of the
\* handler of an earlier record of the key.
C30_AnswerFromOwnHandler ==
  [][\A k \in Keys :
       (/\ Polled(k)
        /\ lastResult'.status = "completed"
        /\ k \in DOMAIN conversations
        /\ ~hardTimeout(conversations[k])) =>
         /\ k \in DOMAIN responses
         /\ lastResult'.message = responses[k].message
         /\ started[conversations[k].id] = 1
         /\ responses[k].hid = conversations[k].id
     ]_vars

\* ------------------------------------------------------------------------
\* Invariants of the record and of the active-request flag
\* ------------------------------------------------------------------------
\* C31: a record with completed = TRUE has webhookCalled = TRUE and its own
\* handler was started, so no record is completed without its userMessage
\* having been sent to the endpoint.
C31_CompletedWasCalled ==
  \A k \in DOMAIN conversations :
     conversations[k].completed =>
       /\ conversations[k].webhookCalled
       /\ started[conversations[k].id] = 1

\* C33: a key that has a record with completed = FALSE has its
\* active-request flag set.
C33_PendingRecordLocked ==
  \A k \in DOMAIN conversations :
     ~conversations[k].completed => hasActiveRequest(k)

\* An immediate-path send of key k is awaiting the endpoint.
AwaitingEndpoint(k) == \E s \in sends : s.phone = k

\* C32: while an immediate-path send of a key is awaiting the endpoint the
\* active-request flag of the key stays set, whatever polls are made, and
\* every other send for the key is rejected.
C32_LockHeldWhileAwaiting ==
  [][\A k \in Keys :
       /\ AwaitingEndpoint(k)' => hasActiveRequest(k)'
       /\ (/\ AwaitingEndpoint(k)
           /\ lastResult'.op = "send" /\ lastResult'.phone = k
           /\ lastResult'.branch # "immediate") =>
            /\ lastResult'.branch = "rejected"
            /\ conversations' = conversations
     ]_vars

\* ------------------------------------------------------------------------
\* Runs in which the client may stop polling
\* ------------------------------------------------------------------------
\* Time passes.  Past the exploration bound it still moves, in steps of
\* MAX_CONVERSATION_AGE, while something stored is not yet older than
\* MAX_CONVERSATION_AGE.
Age ==
  /\ Timestamps # {}
  /\ \E d \in Deltas :
        /\ \/ ticks < MaxTicks
           \/ /\ d = MAX_CONVERSATION_AGE
              /\ \E t \in Timestamps : now - t <= MAX_CONVERSATION_AGE
        /\ now' = now + d
  /\ ticks' = IF ticks < MaxTicks THEN ticks + 1 ELSE ticks
  /\ lastResult' = NoResult
  /\ UNCHANGED << conversations, responses, activeRequests, handlers, sends,
                  nextId, nextSend, started, delivered, lastPoll >>
  /\ UNCHANGED normVars

IdleNext == Poll \/ Send \/ SendReturn \/ Background \/ Sweep \/ Age

\* Every call to the endpoints ends (sendToWebhook terminates), the interval
\* task keeps running and time keeps passing; nothing obliges the client to
\* poll.
IdleSpec ==
  /\ Init
  /\ [][IdleNext]_vars
  /\ WF_vars(SendReturn)
  /\ WF_vars(Background)
  /\ WF_vars(Sweep)
  /\ WF_vars(Age)

\* C34: whenever the active-request flag of a key is set, it is eventually
\* cleared or removed, even if the key is never polled.
C34_LockEventuallyReleased ==
  \A k \in OneKey : hasActiveRequest(k) ~> ~hasActiveRequest(k)

\* The flag of a record that was never polled is gone with the record: the
\* sweep removed both.
C34_Witness ==
  \E k \in OneKey :
     /\ nextId = 2 /\ nextSend = 1
     /\ lastPoll[k] = "sent"
     /\ k \notin DOMAIN conversations
     /\ k \notin DOMAIN activeRequests
     /\ now > MAX_CONVERSATION_AGE

\* ------------------------------------------------------------------------
\* What an immediate-path send does to the store
\* ------------------------------------------------------------------------
\* C35: a send on the immediate path changes no ConversationRecord and no
\* FinalResponse: when it starts it only sets the active-request flag of its
\* key, and when it returns, with ok:true or ok:false, it only clears it.
C35_ImmediateSendTouchesOnlyFlag ==
  [][/\ \A s \in sends' \ sends :
          /\ conversations' = conversations
          /\ responses' = responses
          /\ activeRequests' = MapSet(activeRequests, s.phone, TRUE)
     /\ \A s \in sends \ sends' :
          /\ conversations' = conversations
          /\ responses' = responses
          /\ activeRequests' = MapSet(activeRequests, s.phone, FALSE)
          /\ lastResult'.branch = "immediate"
    ]_vars

\* An immediate-path send has returned ok:false while a FinalResponse was
\* waiting to be picked up, and the response is still stored.
C35_Witness ==
  \E k \in DOMAIN responses :
     /\ lastResult.op = "send" /\ lastResult.phone = k
     /\ lastResult.branch = "immediate"
     /\ ~lastResult.ok
     /\ nextSend = 2 /\ sends = {}
     /\ delivered[responses[k].hid] = 0
     /\ ~hasActiveRequest(k)

\* C36: in every reachable state a record with completed = TRUE has a
\* FinalResponse stored for its key, so no poll finds a record completed
\* without a response.
C36_CompletedRecordHasResponse ==
  \A k \in Keys :
     (k \in DOMAIN conversations /\ conversations[k].completed)
        => k \in DOMAIN responses

\* The second record of a key was completed by its own handler, whose
\* FinalResponse is stored, after time has passed.
C36_Witness ==
  \E k \in DOMAIN conversations :
     /\ conversations[k].completed
     /\ conversations[k].id = 2
     /\ started[2] = 1
     /\ k \in DOMAIN responses
     /\ responses[k].hid = 2
     /\ now > conversations[k].startTime

\* Something is stored for key k: a record or a FinalResponse.
Holds(k) == k \in DOMAIN conversations \/ k \in DOMAIN responses

\* C37: the state of a key does not leak: whenever a record or a
\* FinalResponse is stored for a key, eventually neither is, whether or not
\* the key is polled.
C37_StateEventuallyRemoved ==
  \A k \in OneKey : Holds(k) ~> ~Holds(k)

\* A record whose handler had finished was never polled again: the record,
\* its FinalResponse and its flag are gone, removed by the sweep.
C37_Witness ==
  \E k \in OneKey :
     /\ ~Holds(k)
     /\ k \notin DOMAIN activeRequests
     /\ nextId = 2 /\ nextSend = 1
     /\ started[1] = 1 /\ delivered[1] = 0
     /\ handlers = {}
     /\ lastPoll[k] = "trigger"

\* ------------------------------------------------------------------------
\* The page and its polling loop, together with the server
\* ------------------------------------------------------------------------
\* POLL_INTERVAL (page.tsx 38)
POLL_INTERVAL == 3000

\* Bounds: the responses the page awaits at once, the fetches that fail, and
\* the clicks on Clear
MaxInFlight == 2
MaxLost == 1
MaxClears == 1

\* Bound: the number of times a timer fires on time
MaxPageTicks == 6

Remove(s, i) == SubSeq(s, 1, i - 1) \o SubSeq(s, i + 1, Len(s))

\* The page fields a poll result or a sent message may change
loopVars == << hasStartedPollingRef, pollingIntervalRef, intervals, ripe, isLoading >>

\* The page awaits fewer than MaxInFlight responses
CanFetch == Len(fetches) + Cardinality(sends) < MaxInFlight

\* stopPolling (page.tsx 96-104)
stopPolling ==
  /\ intervals' = intervals \ {pollingIntervalRef}
  /\ ripe' = ripe \ {pollingIntervalRef}
  /\ pollingIntervalRef' = 0
  /\ isLoading' = FALSE
  /\ hasStartedPollingRef' = FALSE

\* The switch of pollForResponse stopping on "completed" only: a variant
\* of the code under which C38 fails
stopsPolling_CompletedOnly(status) == status = "completed"

\* The statuses on which the switch of pollForResponse calls stopPolling
\* (page.tsx 149-220)
stopsPolling(status) == status \in {"completed", "none"}

\* pollForResponse once its fetch has ended (page.tsx 125-237): failed is a
\* fetch that threw or answered without ok
pollForResponseThen(result, failed) ==
  /\ IF ~failed /\ stopsPolling(result.status)
     THEN stopPolling
     ELSE UNCHANGED loopVars
  /\ UNCHANGED storeVars

\* The timer id setInterval returns
NewInterval == CHOOSE n \in 1..(Cardinality(intervals) + 1) : n \notin intervals

\* startPolling (page.tsx 241-271); its call of pollForResponse goes up to
\* the fetch, which the server answers with handlePollRequest
startPolling(toPhone, awaited) ==
  IF hasStartedPollingRef
  THEN /\ fetches' = awaited
       /\ UNCHANGED loopVars
       /\ UNCHANGED storeVars
  ELSE /\ isLoading' = TRUE
       /\ hasStartedPollingRef' = TRUE
       /\ handlePollRequest(toPhone)
       /\ fetches' = Append(awaited, lastResult')
       /\ pollingIntervalRef' = NewInterval
       /\ intervals' = intervals \cup {NewInterval}
       /\ ripe' = ripe

\* handleSendMessage once its fetch has ended (page.tsx 323-371)
handleSendMessageThen(result, failed, awaited) ==
  IF ~failed /\ result.ok /\ result.status = "pending"
  THEN startPolling(result.phone, awaited)
  ELSE /\ isLoading' = FALSE
       /\ fetches' = awaited
       /\ UNCHANGED << hasStartedPollingRef, pollingIntervalRef, intervals, ripe >>
       /\ UNCHANGED storeVars

\* handleSendMessage up to its fetch (page.tsx 274-322), which the input
\* and the button allow while isLoading is false (page.tsx 632-636), and
\* handleSendRequest on the server
PageSend ==
  /\ ~isLoading
  /\ CanFetch
  /\ \E userPhone \in OneKey, soft \in BOOLEAN :
        handleSendRequest(userPhone, SoftSkillsMessage, soft)
  /\ IF hasStartedPollingRef
     THEN /\ intervals' = intervals \ {pollingIntervalRef}
          /\ ripe' = ripe \ {pollingIntervalRef}
          /\ pollingIntervalRef' = 0
     ELSE UNCHANGED << intervals, ripe, pollingIntervalRef >>
  /\ hasStartedPollingRef' = FALSE
  /\ isLoading' = TRUE
  /\ fetches' = IF lastResult'.op = "send" THEN Append(fetches, lastResult')
                ELSE fetches
  /\ UNCHANGED << lost, clears >>
  /\ UNCHANGED << raw, userPhone1, userPhone2, pc, lastData, lastRun, clientVars >>

\* The immediate path of handleSendRequest returns its answer to the page
PageSendReturn ==
  /\ \E s \in sends, result \in WebhookResults : handleSendReturn(s, result)
  /\ fetches' = Append(fetches, lastResult')
  /\ UNCHANGED loopVars
  /\ UNCHANGED << lost, clears >>
  /\ UNCHANGED << raw, userPhone1, userPhone2, pc, lastData, lastRun, clientVars >>

\* A fetch of the page ends, in any order, and the code after its await runs
Receive ==
  /\ \E i \in 1..Len(fetches), failed \in BOOLEAN :
        LET result == fetches[i]
        IN /\ failed => lost < MaxLost
           /\ lost' = IF failed THEN lost + 1 ELSE lost
           /\ IF result.op = "poll"
              THEN /\ pollForResponseThen(result, failed)
                   /\ fetches' = Remove(fetches, i)
              ELSE handleSendMessageThen(result, failed, Remove(fetches, i))
  /\ UNCHANGED clears
  /\ UNCHANGED << raw, userPhone1, userPhone2, pc, lastData, lastRun, clientVars >>

\* Time passes until a running timer is to fire: POLL_INTERVAL, and past the
\* exploration bound MAX_TOTAL_TIME, the browser holding the timer back
Wait ==
  /\ intervals # {}
  /\ ripe = {}
  /\ IF ticks < MaxPageTicks
     THEN /\ now' = now + POLL_INTERVAL
          /\ ticks' = ticks + 1
     ELSE /\ now' = now + MAX_TOTAL_TIME
          /\ ticks' = ticks
  /\ ripe' = intervals
  /\ lastResult' = NoResult
  /\ UNCHANGED << conversations, responses, activeRequests, handlers, sends,
                  nextId, nextSend, started, delivered, lastPoll >>
  /\ UNCHANGED << hasStartedPollingRef, pollingIntervalRef, intervals, isLoading,
                  fetches, lost, clears >>
  /\ UNCHANGED << raw, userPhone1, userPhone2, pc, lastData, lastRun, clientVars >>

\* The callback of setInterval (page.tsx 268-270): pollForResponse up to its
\* fetch (page.tsx 107-123), which the server answers with handlePollRequest
IntervalFires ==
  /\ CanFetch
  /\ \E id \in ripe : ripe' = ripe \ {id}
  /\ IF hasStartedPollingRef
     THEN /\ \E toPhone \in OneKey : handlePollRequest(toPhone)
          /\ fetches' = Append(fetches, lastResult')
     ELSE /\ UNCHANGED storeVars
          /\ UNCHANGED fetches
  /\ UNCHANGED << hasStartedPollingRef, pollingIntervalRef, intervals, isLoading,
                  lost, clears >>
  /\ UNCHANGED << raw, userPhone1, userPhone2, pc, lastData, lastRun, clientVars >>

\* handleClearCache from its call of stopPolling on (page.tsx 490-495)
handleClearCache ==
  /\ clears < MaxClears
  /\ clears' = clears + 1
  /\ stopPolling
  /\ UNCHANGED << fetches, lost >>
  /\ UNCHANGED storeVars
  /\ UNCHANGED << raw, userPhone1, userPhone2, pc, lastData, lastRun, clientVars >>

PageNext ==
  \/ PageSend \/ PageSendReturn \/ Receive \/ Wait \/ IntervalFires
  \/ handleClearCache \/ Background \/ Sweep

\* A running timer fires every POLL_INTERVAL and every fetch ends
PageSpec ==
  /\ Init
  /\ [][PageNext]_vars
  /\ WF_vars(Wait)
  /\ WF_vars(IntervalFires)
  /\ WF_vars(Receive)
  /\ WF_vars(PageSendReturn)

\* The page receives the answer to its i-th awaited fetch, a poll
ReceivesPoll(i) ==
  /\ i \in 1..Len(fetches)
  /\ fetches[i].op = "poll"
  /\ fetches' = Remove(fetches, i)
  /\ lost' = lost
  /\ clears' = clears

\* The last poll of the key was given a final status by the server
FinalAnswered(k) == lastPoll[k] \in {"stored", "completed", "hard_timeout", "none"}

\* A final status is on its way to the page
FinalAwaited ==
  \E i \in 1..Len(fetches) :
     fetches[i].op = "poll" /\ fetches[i].status \in {"completed", "none"}

\* C38: once the page polls, at most one polling loop runs at a time; a poll
\* result stops the loop exactly when its status is "completed" or "none",
\* and nothing but a poll result, a new message or Clear stops it; when the
\* server has given a poll a final status (the hard-deadline result is a
\* "completed"), that answer is on its way to the running loop unless a
\* fetch failed, so no further poll is needed; and a running loop
\* eventually stops.
C38_PollingLoopTerminates ==
  /\ [](/\ Cardinality(intervals) <= 1
        /\ hasStartedPollingRef <=> intervals # {}
        /\ hasStartedPollingRef => pollingIntervalRef \in intervals)
  /\ [][/\ \A i \in 1..Len(fetches) :
             ReceivesPoll(i) =>
               IF fetches[i].status \in {"completed", "none"}
               THEN ~hasStartedPollingRef'
               ELSE hasStartedPollingRef' = hasStartedPollingRef
        /\ (hasStartedPollingRef /\ ~hasStartedPollingRef') =>
              \/ clears' # clears
              \/ nextId' # nextId \/ nextSend' # nextSend \/ lastResult'.op = "send"
              \/ \E i \in 1..Len(fetches) :
                    ReceivesPoll(i) /\ fetches[i].status \in {"completed", "none"}]_vars
  /\ [](\A k \in OneKey :
          (hasStartedPollingRef /\ FinalAnswered(k) /\ lost = 0) => FinalAwaited)
  /\ (hasStartedPollingRef ~> ~hasStartedPollingRef)

\* The server gave the hard-deadline result to a poll of a running loop, the
\* fetch failed, and the loop stopped on the "none" of a later poll.
C38_Witness ==
  \E k \in OneKey :
     /\ ~hasStartedPollingRef
     /\ intervals = {}
     /\ fetches = << >>
     /\ lost = 1
     /\ clears = 0
     /\ nextId = 2
     /\ nextSend = 1
     /\ delivered[1] = 0
     /\ lastPoll[k] = "none"
     /\ k \notin DOMAIN conversations

====
